---- MODULE Spec2Model ----
(***************************************************************************)
(* Model of the conversational core of the AI Booking Assistant:           *)
(*   booking_flow.py  - the slot-filling / confirmation state machine      *)
(*   chat_logic.py    - the router: bounded history, duplicate questions,  *)
(*                      intent detection, dispatch                         *)
(*   main.py          - the chat page's use of the router's payload        *)
(*                                                                         *)
(* Text is a sequence of strings.  User input is a sequence of one-        *)
(* character strings, so that strip(), lower(), split() and the regular    *)
(* expressions of the source are computed character by character.  A fixed *)
(* message of the program is a one-element sequence holding the message;   *)
(* Python's string concatenation is \o.  Typographic apostrophes of the     *)
(* program's messages are written as plain apostrophes.                    *)
(***************************************************************************)
EXTENDS Integers, Sequences, FiniteSets, TLC

VARIABLES
    booking_state,   \* Optional[BookingState]: the dialogue state (st.session_state["booking_state"])
    messages,        \* st.session_state["messages"]: the bounded history
    reply,           \* response text returned by the last call
    payload,         \* Optional[BookingData] returned by the last call
    user_input,      \* the raw user input of the last call
    routed,          \* what the router called in the last turn: "none", "empty", "duplicate", "booking", "rag"
    persist_calls,   \* number of booking_persistence_tool invocations made by the chat page
    appended,        \* every message ever passed to _add_message, in order
    log,             \* the raw inputs of the calls made so far (scripted dialogue only)
    rag_result,      \* what rag_tool returned in the last turn, None when it was not called
    turns,           \* number of chat turns taken
    detours,         \* number of turns in which the user said something other than what was asked for
    chunks,          \* rag_pipeline._chunks: the stored chunks, in order
    embeddings,      \* rag_pipeline._embeddings: the rows of the matrix (None and the empty matrix: no rows)
    faiss_index,     \* rag_pipeline._faiss_index: the rows the index was built over (None: no rows)
    ingest,          \* per thread: the ingest_pdfs call it runs, its position and local variables
    retrieval,       \* the _retrieve_relevant_chunks call of the reading thread
    ingest_calls,    \* number of ingest_pdfs calls started
    ingest_failures, \* number of ingest_pdfs calls that raised
    chunker,         \* the _chunk_text call in progress: its arguments, configuration and local variables
    generation,      \* the _generate_with_fallback call in progress: its position, local variables and the calls it made
    intent,          \* the detect_intent call: its argument and, once it returned, its result
    insertion,       \* a value put into a booking record: the record, the field, the value, the missing fields before and after
    db,              \* the SQLite database: the rows of customers and of bookings
    outbox,          \* the emails the SMTP server accepted, in order
    page,            \* what the last run of the chat page did after the router: tool calls, results, status messages
    uploaded         \* the files held by the page's file uploader (empty: none)

chatVars == <<booking_state, messages, reply, payload, user_input, routed, persist_calls, appended, log,
              rag_result, turns, detours>>

storeVars == <<chunks, embeddings, faiss_index, ingest, retrieval, ingest_calls, ingest_failures>>

callVars == <<chunker, generation, intent, insertion>>

toolVars == <<db, outbox, page, uploaded>>

auxVars == <<callVars, toolVars>>

vars == <<chatVars, storeVars, auxVars>>

-----------------------------------------------------------------------------
(* Optional values *)

None == <<>>
Some(x) == <<x>>

-----------------------------------------------------------------------------
(* Characters and the str methods the source uses *)

Whitespace == {" ", "\t", "\n"}
Digits == {"0", "1", "2", "3", "4", "5", "6", "7", "8", "9"}
UpperLetters == <<"A", "B", "C", "D", "E", "F", "G", "H", "I", "J", "K", "L", "M", "N", "O", "P", "Q", "R", "S", "T", "U", "V", "W", "X", "Y", "Z">>
LowerLetters == <<"a", "b", "c", "d", "e", "f", "g", "h", "i", "j", "k", "l", "m", "n", "o", "p", "q", "r", "s", "t", "u", "v", "w", "x", "y", "z">>
WordChars == Digits \cup {"_"} \cup {UpperLetters[i] : i \in 1..26} \cup {LowerLetters[i] : i \in 1..26}

RECURSIVE lstrip(_)
lstrip(t) == IF t # <<>> /\ Head(t) \in Whitespace THEN lstrip(Tail(t)) ELSE t

RECURSIVE rstrip(_)
rstrip(t) == IF t # <<>> /\ t[Len(t)] \in Whitespace THEN rstrip(SubSeq(t, 1, Len(t) - 1)) ELSE t

strip(t) == rstrip(lstrip(t))

lower_char(c) ==
    IF \E i \in 1..26 : UpperLetters[i] = c
    THEN LowerLetters[CHOOSE i \in 1..26 : UpperLetters[i] = c]
    ELSE c

lower(t) == [i \in 1..Len(t) |-> lower_char(t[i])]

\* s occurs in t starting at position i
OccursAt(s, t, i) == i >= 1 /\ i + Len(s) - 1 <= Len(t) /\ SubSeq(t, i, i + Len(s) - 1) = s

\* Python's `s in t`
Contains(t, s) == \E i \in 1..(Len(t) + 1) : OccursAt(s, t, i)

DigitValue(c) == CHOOSE n \in 0..9 : <<"0", "1", "2", "3", "4", "5", "6", "7", "8", "9">>[n + 1] = c

AllDigits(t) == \A i \in 1..Len(t) : t[i] \in Digits

-----------------------------------------------------------------------------
(* booking_flow.py: validation *)

REQUIRED_FIELDS == <<"name", "email", "phone", "booking_type", "date", "time">>
FieldSet == {REQUIRED_FIELDS[i] : i \in 1..Len(REQUIRED_FIELDS)}
NoneField == "None"

\* re.match(r"^[^@\s]+@[^@\s]+\.[^@\s]+$", email.strip())
is_valid_email(email) ==
    LET e == strip(email) IN
    \E i \in 2..Len(e) :
        /\ e[i] = "@"
        /\ \A k \in 1..Len(e) : (k # i) => (e[k] # "@" /\ e[k] \notin Whitespace)
        /\ \E j \in (i + 2)..(Len(e) - 1) : e[j] = "."

\* strptime directive %m: 1[0-2]|0[1-9]|[1-9]   (0 when it does not match)
MonthValue(s) ==
    IF Len(s) = 2 /\ s[1] = "1" /\ s[2] \in {"0", "1", "2"} THEN 10 + DigitValue(s[2])
    ELSE IF Len(s) = 2 /\ s[1] = "0" /\ s[2] \in Digits \ {"0"} THEN DigitValue(s[2])
    ELSE IF Len(s) = 1 /\ s[1] \in Digits \ {"0"} THEN DigitValue(s[1])
    ELSE 0

\* strptime directive %d: 3[0-1]|[1-2]\d|0[1-9]|[1-9]| [1-9]   (0 when it does not match)
DayValue(s) ==
    IF Len(s) = 2 /\ s[1] = "3" /\ s[2] \in {"0", "1"} THEN 30 + DigitValue(s[2])
    ELSE IF Len(s) = 2 /\ s[1] \in {"1", "2"} /\ s[2] \in Digits THEN 10 * DigitValue(s[1]) + DigitValue(s[2])
    ELSE IF Len(s) = 2 /\ s[1] \in {"0", " "} /\ s[2] \in Digits \ {"0"} THEN DigitValue(s[2])
    ELSE IF Len(s) = 1 /\ s[1] \in Digits \ {"0"} THEN DigitValue(s[1])
    ELSE 0

\* strptime directive %Y: \d\d\d\d   (-1 when it does not match)
YearValue(s) ==
    IF Len(s) = 4 /\ AllDigits(s)
    THEN 1000 * DigitValue(s[1]) + 100 * DigitValue(s[2]) + 10 * DigitValue(s[3]) + DigitValue(s[4])
    ELSE -1

IsLeapYear(y) == y % 4 = 0 /\ (y % 100 # 0 \/ y % 400 = 0)

DaysInMonth(y, m) ==
    IF m = 2 THEN (IF IsLeapYear(y) THEN 29 ELSE 28)
    ELSE IF m \in {4, 6, 9, 11} THEN 30
    ELSE 31

\* datetime.strptime(date_str.strip(), "%Y-%m-%d") does not raise ValueError
is_valid_date(date_str) ==
    LET d == strip(date_str) IN
    /\ Len(d) >= 8
    /\ d[5] = "-"
    /\ \E ml \in {1, 2} :
          /\ Len(d) >= 7 + ml
          /\ d[6 + ml] = "-"
          /\ LET y == YearValue(SubSeq(d, 1, 4))
                 m == MonthValue(SubSeq(d, 6, 5 + ml))
                 dd == DayValue(SubSeq(d, 7 + ml, Len(d)))
             IN y >= 1 /\ m >= 1 /\ dd >= 1 /\ dd <= DaysInMonth(y, m)

\* strptime directive %H: 2[0-3]|[0-1]\d|\d
HourMatches(s) ==
    \/ Len(s) = 2 /\ s[1] = "2" /\ s[2] \in {"0", "1", "2", "3"}
    \/ Len(s) = 2 /\ s[1] \in {"0", "1"} /\ s[2] \in Digits
    \/ Len(s) = 1 /\ s[1] \in Digits

\* strptime directive %M: [0-5]\d|\d
MinuteMatches(s) ==
    \/ Len(s) = 2 /\ s[1] \in {"0", "1", "2", "3", "4", "5"} /\ s[2] \in Digits
    \/ Len(s) = 1 /\ s[1] \in Digits

\* datetime.strptime(time_str.strip(), "%H:%M") does not raise ValueError
is_valid_time(time_str) ==
    LET t == strip(time_str) IN
    \E hl \in {1, 2} :
        /\ Len(t) >= hl + 2
        /\ t[hl + 1] = ":"
        /\ HourMatches(SubSeq(t, 1, hl))
        /\ MinuteMatches(SubSeq(t, hl + 2, Len(t)))

\* len(re.sub(r"\D", "", value))
DigitCount(value) == Cardinality({i \in 1..Len(value) : value[i] \in Digits})

ErrName == <<"Please provide a valid name.">>
ErrBookingType == <<"Please provide a valid booking type.">>
ErrEmail == <<"That email address doesn't look valid. Please enter a valid email (e.g. name@example.com).">>
ErrPhone == <<"Please provide a valid phone number (at least 7 digits).">>
ErrDate == <<"Please enter a valid date in the format YYYY-MM-DD.">>
ErrTime == <<"Please enter a valid time in 24-hour format HH:MM (e.g. 14:30).">>

Valid == [is_valid |-> TRUE, error |-> None]
Invalid(msg) == [is_valid |-> FALSE, error |-> msg]

validate_field(field, raw) ==
    LET value == strip(raw) IN
    IF field \in {"name", "booking_type"} THEN
        (IF value = <<>> THEN Invalid(IF field = "name" THEN ErrName ELSE ErrBookingType) ELSE Valid)
    ELSE IF field = "email" THEN
        (IF ~is_valid_email(value) THEN Invalid(ErrEmail) ELSE Valid)
    ELSE IF field = "phone" THEN
        (IF DigitCount(value) < 7 THEN Invalid(ErrPhone) ELSE Valid)
    ELSE IF field = "date" THEN
        (IF ~is_valid_date(value) THEN Invalid(ErrDate) ELSE Valid)
    ELSE IF field = "time" THEN
        (IF ~is_valid_time(value) THEN Invalid(ErrTime) ELSE Valid)
    ELSE Valid

-----------------------------------------------------------------------------
(* booking_flow.py: the booking record (a dict) and its renderings *)

EmptyBooking == [f \in {} |-> <<>>]

\* booking.get(field): None, modelled as the empty text, when the key is absent
Get(booking, field) == IF field \in DOMAIN booking THEN booking[field] ELSE <<>>

\* a record holding the new value only
SetItem_Fresh(booking, field, value) == [f \in {field} |-> value]

\* state.booking[field] = value
SetItem(booking, field, value) ==
    [f \in (DOMAIN booking) \cup {field} |-> IF f = field THEN value ELSE booking[f]]

detect_missing_fields(booking) == [f \in FieldSet |-> Get(booking, f) = <<>>]

RECURSIVE FirstMissingFrom(_, _)
FirstMissingFrom(booking, i) ==
    IF i > Len(REQUIRED_FIELDS) THEN NoneField
    ELSE IF Get(booking, REQUIRED_FIELDS[i]) = <<>> THEN REQUIRED_FIELDS[i]
    ELSE FirstMissingFrom(booking, i + 1)

\* (mutant) the scan starts at the second field
next_missing_field_SkipFirst(booking) == FirstMissingFrom(booking, 2)

next_missing_field(booking) == FirstMissingFrom(booking, 1)

NA == <<"N/A">>
OrNA(v) == IF strip(v) = <<>> THEN NA ELSE strip(v)

summarize_booking(booking) ==
    <<"Here are your booking details:">>
        \o <<"\n- Name: ">> \o OrNA(Get(booking, "name"))
        \o <<"\n- Email: ">> \o OrNA(Get(booking, "email"))
        \o <<"\n- Phone: ">> \o OrNA(Get(booking, "phone"))
        \o <<"\n- Booking type: ">> \o OrNA(Get(booking, "booking_type"))
        \o <<"\n- Date: ">> \o OrNA(Get(booking, "date"))
        \o <<"\n- Time: ">> \o OrNA(Get(booking, "time"))

field_prompt(field) ==
    IF field = "name" THEN <<"To get started, what's your full name?">>
    ELSE IF field = "email" THEN <<"Please provide your email address.">>
    ELSE IF field = "phone" THEN <<"What is the best phone number to reach you?">>
    ELSE IF field = "booking_type" THEN <<"What type of booking would you like to make (e.g. consultation, demo, reservation)?">>
    ELSE IF field = "date" THEN <<"On which date would you like the booking? (format: YYYY-MM-DD)">>
    ELSE IF field = "time" THEN <<"At what time? (24-hour format HH:MM, e.g. 14:30)">>
    ELSE <<"Please provide a value for ", field, ".">>

\* (mutant) date and time change places
BookingData_Swapped(booking) ==
    [f \in FieldSet |-> strip(booking[IF f = "date" THEN "time" ELSE IF f = "time" THEN "date" ELSE f])]

\* BookingData(name=state.booking["name"].strip(), ...): needs every key
BookingData(booking) == [f \in FieldSet |-> strip(booking[f])]

-----------------------------------------------------------------------------
(* booking_flow.py: handle_booking_flow *)

NewBookingState ==
    [booking |-> EmptyBooking, stage |-> "collecting", awaiting_field |-> NoneField, confirmed |-> FALSE]

AffirmativeTokens == {<<"y", "e", "s">>, <<"y">>, <<"c", "o", "n", "f", "i", "r", "m">>, <<"s", "u", "r", "e">>}
NegativeTokens == {<<"n", "o">>, <<"n">>, <<"c", "a", "n", "c", "e", "l">>}

MsgConfirmEmpty == <<"Please respond with 'yes' to confirm the booking or 'no' to cancel.">>
MsgConfirmOther == <<"Please answer with 'yes' to confirm the booking or 'no' to cancel.">>
MsgConfirmed == <<"Great, your booking is confirmed!">>
MsgCancelled == <<"Okay, I've cancelled this booking request. If you'd like to start over, just let me know.">>
MsgDidntCatch == <<"I didn't catch that. ">>
MsgPleaseConfirm == <<"\n\nPlease confirm: do you want me to place this booking? (yes/no)">>
MsgConfirmAgain == <<"\n\nPlease confirm this booking with 'yes' or 'no'.">>
MsgAlreadyConfirmed == <<"This booking has already been confirmed.">>
MsgFlowCancelled == <<"This booking flow has been cancelled. Start a new booking if needed.">>

\* what a call returns: (response_text, new_state, booking_payload), or a KeyError
\* raised after the state object was already changed
Return(text, state, data) ==
    [response_text |-> text, new_state |-> state, booking_payload |-> data, raised |-> FALSE]
Raise(state) ==
    [response_text |-> <<>>, new_state |-> state, booking_payload |-> None, raised |-> TRUE]

\* the payload built from the record, or KeyError when a key is absent
EmitPayload(text, state) ==
    IF FieldSet \subseteq DOMAIN state.booking
    THEN Return(text, state, Some(BookingData(state.booking)))
    ELSE Raise(state)

\* (mutant) an unrecognised answer is answered with the payload
ConfirmStage_PayloadOnReprompt(state, user_text) ==
    IF user_text = <<>> THEN Return(MsgConfirmEmpty, state, None)
    ELSE LET normalized == lower(user_text) IN
         IF normalized \in AffirmativeTokens THEN
             EmitPayload(MsgConfirmed, [state EXCEPT !.confirmed = TRUE, !.stage = "completed"])
         ELSE IF normalized \in NegativeTokens THEN
             Return(MsgCancelled, [state EXCEPT !.stage = "cancelled", !.confirmed = FALSE], None)
         ELSE EmitPayload(MsgConfirmOther, state)

\* (mutant) cancelling clears the record
ConfirmStage_ClearOnCancel(state, user_text) ==
    IF user_text = <<>> THEN Return(MsgConfirmEmpty, state, None)
    ELSE LET normalized == lower(user_text) IN
         IF normalized \in AffirmativeTokens THEN
             EmitPayload(MsgConfirmed, [state EXCEPT !.confirmed = TRUE, !.stage = "completed"])
         ELSE IF normalized \in NegativeTokens THEN
             Return(MsgCancelled,
                    [state EXCEPT !.stage = "cancelled", !.confirmed = FALSE, !.booking = EmptyBooking], None)
         ELSE Return(MsgConfirmOther, state, None)

\* (mutant) every answer that is not a negative token confirms
ConfirmStage_AnythingConfirms(state, user_text) ==
    IF user_text = <<>> THEN Return(MsgConfirmEmpty, state, None)
    ELSE LET normalized == lower(user_text) IN
         IF normalized \in NegativeTokens THEN
             Return(MsgCancelled, [state EXCEPT !.stage = "cancelled", !.confirmed = FALSE], None)
         ELSE EmitPayload(MsgConfirmed, [state EXCEPT !.confirmed = TRUE, !.stage = "completed"])

\* (mutant) an answer that is neither affirmative nor negative is taken as agreement
\* while the confirmation stays open
ConfirmStage_AssumeAgreement(state, user_text) ==
    IF user_text = <<>> THEN Return(MsgConfirmEmpty, state, None)
    ELSE LET normalized == lower(user_text) IN
         IF normalized \in AffirmativeTokens THEN
             EmitPayload(MsgConfirmed, [state EXCEPT !.confirmed = TRUE, !.stage = "completed"])
         ELSE IF normalized \in NegativeTokens THEN
             Return(MsgCancelled, [state EXCEPT !.stage = "cancelled", !.confirmed = FALSE], None)
         ELSE Return(MsgConfirmOther, [state EXCEPT !.confirmed = TRUE], None)

\* lines 209-250: awaiting confirmation
ConfirmStage(state, user_text) ==
    IF user_text = <<>> THEN Return(MsgConfirmEmpty, state, None)
    ELSE LET normalized == lower(user_text) IN
         IF normalized \in AffirmativeTokens THEN
             EmitPayload(MsgConfirmed, [state EXCEPT !.confirmed = TRUE, !.stage = "completed"])
         ELSE IF normalized \in NegativeTokens THEN
             Return(MsgCancelled, [state EXCEPT !.stage = "cancelled", !.confirmed = FALSE], None)
         ELSE Return(MsgConfirmOther, state, None)

\* (mutant) saving a value starts the record afresh
StoreField_Reset(state, field, user_text) ==
    [state EXCEPT !.booking = SetItem(EmptyBooking, field, strip(user_text)),
                  !.awaiting_field = NoneField]

\* lines 270-272: save the validated value
StoreField(state, field, user_text) ==
    [state EXCEPT !.booking = SetItem(state.booking, field, strip(user_text)),
                  !.awaiting_field = NoneField]

\* (mutant) only a completed dialogue is excluded from the repeated confirmation
NextStep_CancelledAsksAgain(state) ==
    LET missing_field == next_missing_field(state.booking) IN
    IF missing_field # NoneField THEN
        Return(field_prompt(missing_field),
               [state EXCEPT !.stage = "collecting", !.awaiting_field = missing_field], None)
    ELSE IF state.stage = "collecting" THEN
        Return(summarize_booking(state.booking) \o MsgPleaseConfirm, [state EXCEPT !.stage = "confirm"], None)
    ELSE IF state.stage # "completed" THEN
        Return(summarize_booking(state.booking) \o MsgConfirmAgain, [state EXCEPT !.stage = "confirm"], None)
    ELSE EmitPayload(MsgAlreadyConfirmed, state)

\* (mutant) the time is optional: the confirmation is asked for once the other fields are in
NextStep_TimeOptional(state) ==
    LET first == next_missing_field(state.booking)
        missing_field == IF first = "time" THEN NoneField ELSE first
    IN
    IF missing_field # NoneField THEN
        Return(field_prompt(missing_field),
               [state EXCEPT !.stage = "collecting", !.awaiting_field = missing_field], None)
    ELSE IF state.stage = "collecting" THEN
        Return(summarize_booking(state.booking) \o MsgPleaseConfirm,
               [state EXCEPT !.stage = "confirm"], None)
    ELSE IF state.stage \notin {"completed", "cancelled"} THEN
        Return(summarize_booking(state.booking) \o MsgConfirmAgain,
               [state EXCEPT !.stage = "confirm"], None)
    ELSE IF state.stage = "completed" THEN
        EmitPayload(MsgAlreadyConfirmed, state)
    ELSE Return(MsgFlowCancelled, state, None)

\* lines 274-316: ask for the next field, move to confirmation, or acknowledge
NextStep(state) ==
    LET missing_field == next_missing_field(state.booking) IN
    IF missing_field # NoneField THEN
        Return(field_prompt(missing_field),
               [state EXCEPT !.stage = "collecting", !.awaiting_field = missing_field], None)
    ELSE IF state.stage = "collecting" THEN
        Return(summarize_booking(state.booking) \o MsgPleaseConfirm,
               [state EXCEPT !.stage = "confirm"], None)
    ELSE IF state.stage \notin {"completed", "cancelled"} THEN
        Return(summarize_booking(state.booking) \o MsgConfirmAgain,
               [state EXCEPT !.stage = "confirm"], None)
    ELSE IF state.stage = "completed" THEN
        \* all(state.booking.get(k) for k in REQUIRED_FIELDS) holds here: no field is missing
        EmitPayload(MsgAlreadyConfirmed, state)
    ELSE Return(MsgFlowCancelled, state, None)

\* (mutant) any non-empty answer is saved and the dialogue moves on
CollectStage_NoValidation(state, user_text) ==
    LET field == state.awaiting_field IN
    IF user_text = <<>> THEN Return(MsgDidntCatch \o field_prompt(field), state, None)
    ELSE NextStep(StoreField(state, field, user_text))

\* (mutant) the value is saved whether or not it is valid
CollectStage_StoreInvalid(state, user_text) ==
    LET field == state.awaiting_field IN
    IF user_text = <<>> THEN Return(MsgDidntCatch \o field_prompt(field), state, None)
    ELSE LET v == validate_field(field, user_text)
             saved == [state EXCEPT !.booking = SetItem(state.booking, field, strip(user_text))]
         IN  IF ~v.is_valid THEN Return(v.error, saved, None)
             ELSE NextStep(StoreField(state, field, user_text))

\* lines 252-272: collecting, waiting on a specific field
CollectStage(state, user_text) ==
    LET field == state.awaiting_field IN
    IF user_text = <<>> THEN Return(MsgDidntCatch \o field_prompt(field), state, None)
    ELSE LET v == validate_field(field, user_text) IN
         IF ~v.is_valid THEN Return(v.error, state, None)
         ELSE NextStep(StoreField(state, field, user_text))

\* (mutant) a new dialogue takes its opening utterance as the answer to the first question
handle_booking_flow_OpeningIsAnswer(state, input) ==
    LET st == IF state = None THEN [NewBookingState EXCEPT !.awaiting_field = "name"] ELSE state[1]
        user_text == strip(input)
    IN  IF st.stage = "confirm" THEN ConfirmStage(st, user_text)
        ELSE IF st.stage = "collecting" /\ st.awaiting_field # NoneField THEN CollectStage(st, user_text)
        ELSE NextStep(st)

\* state: Optional[BookingState]; input: the user's text (None is read as "")
handle_booking_flow(state, input) ==
    LET st == IF state = None THEN NewBookingState ELSE state[1]
        user_text == strip(input)
    IN  IF st.stage = "confirm" THEN ConfirmStage(st, user_text)
        ELSE IF st.stage = "collecting" /\ st.awaiting_field # NoneField THEN CollectStage(st, user_text)
        ELSE NextStep(st)

-----------------------------------------------------------------------------
(* The user inputs explored *)

FlowInputs ==
    { <<>>, <<" ", " ">>,
      <<" ", "A", "l", " ">>, <<"a", "@", "b", ".", "c">>, <<"a", "@", "b">>, <<"5", "5", "5", "1", "2", "3", "4">>,
      <<"2", "0", "2", "4", "-", "0", "2", "-", "2", "9">>, <<"2", "0", "2", "3", "-", "0", "2", "-", "2", "9">>, <<"1", "4", ":", "3", "0">>, <<"2", "4", ":", "0", "0">>,
      <<"Y", "e", "s">>, <<" ", "S", "U", "R", "E", " ">>,
      <<"N", "O">>, <<"n">>, <<"C", "a", "n", "c", "e", "l">> }

-----------------------------------------------------------------------------
(* rag_pipeline.py: the in-memory store and the threads that use it *)

\* the threads that can run ingest_pdfs (each browser session runs the page in
\* its own thread; the store is module-global)
Threads == {1, 2}

IdleIngest ==
    [pc |-> "idle", new_chunks |-> <<>>, start_index |-> 0, env |-> <<>>, new_embs |-> <<>>,
     pending |-> <<>>, returned |-> <<>>]

IdleRetrieval == [pc |-> "idle", query |-> "", k |-> 0, tier |-> "none", pending |-> <<>>, results |-> <<>>]

\* no _chunk_text call in progress
IdleChunker == [pc |-> "idle", text |-> <<>>, size |-> 0, overlap |-> 0, start |-> 0, chunks |-> <<>>,
                windows |-> <<>>]

\* no table has a row
EmptyDb == [customers |-> <<>>, bookings |-> <<>>]

\* the page has not run: no tool called, no status message pushed
IdlePage == [calls |-> <<>>, db_calls |-> <<>>, persist |-> <<>>, email |-> <<>>, status |-> <<>>]

InitTools ==
    /\ db = EmptyDb
    /\ outbox = <<>>
    /\ page = IdlePage
    /\ uploaded = <<>>

\* no value inserted
IdleInsertion == [pc |-> "idle", booking |-> <<>>, field |-> "None", value |-> <<>>, before |-> <<>>, after |-> <<>>]

\* no detect_intent call made
IdleIntent == [pc |-> "idle", text |-> <<>>, result |-> ""]

\* no _generate_with_fallback call in progress
IdleGeneration == [pc |-> "idle", next |-> 1, listed |-> <<>>, last_err |-> <<>>, attempts |-> <<>>,
                   result |-> <<>>]

InitAux ==
    /\ chunker = IdleChunker
    /\ generation = IdleGeneration
    /\ intent = IdleIntent
    /\ insertion = IdleInsertion
    /\ InitTools

\* _chunks = [], _embeddings = None, _faiss_index = None
InitStore ==
    /\ chunks = <<>>
    /\ embeddings = <<>>
    /\ faiss_index = <<>>
    /\ ingest = [t \in Threads |-> IdleIngest]
    /\ retrieval = IdleRetrieval
    /\ ingest_calls = 0
    /\ ingest_failures = 0

-----------------------------------------------------------------------------
(* Spec: handle_booking_flow called repeatedly on one dialogue state,       *)
(* starting from no state                                                   *)

InitChat ==
    /\ booking_state = None
    /\ messages = <<>>
    /\ reply = <<>>
    /\ payload = None
    /\ user_input = <<>>
    /\ routed = "none"
    /\ persist_calls = 0
    /\ appended = <<>>
    /\ log = <<>>
    /\ rag_result = None
    /\ turns = 0
    /\ detours = 0

Init == InitChat /\ InitStore /\ InitAux

\* one call of handle_booking_flow; a call that raises leaves only the changed state object
CallFlow(input) ==
    \E r \in {handle_booking_flow(booking_state, input)} :
    /\ booking_state' = Some(r.new_state)
    /\ reply' = r.response_text
    /\ payload' = r.booking_payload
    /\ user_input' = input

Invoke ==
    /\ \E input \in FlowInputs : CallFlow(input)
    /\ UNCHANGED <<messages, routed, persist_calls, appended, log, rag_result, turns, detours, storeVars, auxVars>>

Next == Invoke

Spec == Init /\ [][Next]_vars

-----------------------------------------------------------------------------
(* SpecScript: the dialogue of one booking, from no state: an opening call, *)
(* a valid value for each field in order, then an affirmative answer        *)

OpeningInputs == { <<>>, <<"b", "o", "o", "k", " ", "a", " ", "t", "a", "b", "l", "e">> }
YesInputs == { <<"y", "e", "s">>, <<"Y", "E", "S">>, <<"Y">>, <<"C", "o", "n", "f", "i", "r", "m">>, <<"s", "U", "r", "E">> }
ScriptLength == Len(REQUIRED_FIELDS) + 2

ScriptInputs(k) ==
    IF k = 1 THEN OpeningInputs
    ELSE IF k <= Len(REQUIRED_FIELDS) + 1
    THEN {x \in FlowInputs : strip(x) # <<>> /\ validate_field(REQUIRED_FIELDS[k - 1], x).is_valid}
    ELSE YesInputs

ScriptStep ==
    /\ Len(log) < ScriptLength
    /\ \E input \in ScriptInputs(Len(log) + 1) :
          /\ CallFlow(input)
          /\ log' = Append(log, input)
    /\ UNCHANGED <<messages, routed, persist_calls, appended, rag_result, turns, detours, storeVars, auxVars>>

NextScript == ScriptStep

SpecScript == Init /\ [][NextScript]_vars

-----------------------------------------------------------------------------
(* chat_logic.py: the message history *)

MAX_MESSAGES == 25

Message(role, content) == [role |-> role, content |-> content]

\* (mutant) the newest entries are dropped instead of the oldest
add_message_KeepOldest(history, role, content) ==
    LET appendedTo == Append(history, Message(role, content)) IN
    IF Len(appendedTo) > MAX_MESSAGES THEN SubSeq(appendedTo, 1, MAX_MESSAGES) ELSE appendedTo

\* messages.append(...); del messages[0:overflow]
add_message(history, role, content) ==
    LET appendedTo == Append(history, Message(role, content)) IN
    IF Len(appendedTo) > MAX_MESSAGES
    THEN LET overflow == Len(appendedTo) - MAX_MESSAGES
         IN  SubSeq(appendedTo, overflow + 1, Len(appendedTo))
    ELSE appendedTo

\* the last position of the run of non-whitespace characters that starts at i
RECURSIVE WordEnd(_, _)
WordEnd(s, i) == IF i + 1 > Len(s) \/ s[i + 1] \in Whitespace THEN i ELSE WordEnd(s, i + 1)

\* str.split(): the maximal runs of non-whitespace characters
RECURSIVE SplitFrom(_, _)
SplitFrom(t, i) ==
    IF i > Len(t) THEN <<>>
    ELSE IF t[i] \in Whitespace THEN SplitFrom(t, i + 1)
    ELSE <<SubSeq(t, i, WordEnd(t, i))>> \o SplitFrom(t, WordEnd(t, i) + 1)

split(t) == SplitFrom(t, 1)

\* " ".join(words)
RECURSIVE join(_)
join(words) ==
    IF words = <<>> THEN <<>>
    ELSE IF Len(words) = 1 THEN words[1]
    ELSE words[1] \o <<" ">> \o join(Tail(words))

normalize_text(text) == join(split(lower(strip(text))))

\* (mutant) the latest earlier occurrence is answered instead of the earliest
find_previous_answer_for_question_Latest(history, input) ==
    LET norm_input == normalize_text(input)
        HasReply(idx) == \E j \in (idx + 1)..Len(history) : history[j].role = "assistant"
        hits == {idx \in 1..Len(history) :
                    /\ history[idx].role = "user"
                    /\ normalize_text(history[idx].content) = norm_input
                    /\ HasReply(idx)}
    IN  IF hits = {} THEN None
        ELSE LET idx == CHOOSE i \in hits : \A k \in hits : i >= k
                 js == {j \in (idx + 1)..Len(history) : history[j].role = "assistant"}
                 j == CHOOSE x \in js : \A y \in js : x <= y
             IN  Some(history[j].content)

\* the first user message with the same normalised text that has an assistant
\* message after it; the answer is the first assistant message after it
find_previous_answer_for_question(history, input) ==
    LET norm_input == normalize_text(input)
        HasReply(idx) == \E j \in (idx + 1)..Len(history) : history[j].role = "assistant"
        hits == {idx \in 1..Len(history) :
                    /\ history[idx].role = "user"
                    /\ normalize_text(history[idx].content) = norm_input
                    /\ HasReply(idx)}
    IN  IF hits = {} THEN None
        ELSE LET idx == CHOOSE i \in hits : \A k \in hits : i <= k
                 js == {j \in (idx + 1)..Len(history) : history[j].role = "assistant"}
                 j == CHOOSE x \in js : \A y \in js : x <= y
             IN  Some(history[j].content)

-----------------------------------------------------------------------------
(* chat_logic.py: detect_intent *)

\* \b at position i: between t[i-1] and t[i], exactly one is a word character
BoundaryAt(t, i) ==
    ((i > 1 /\ i - 1 <= Len(t) /\ t[i - 1] \in WordChars)
        # (i >= 1 /\ i <= Len(t) /\ t[i] \in WordChars))

\* the words, separated by \s+ and followed by \b, match t from position i
RECURSIVE MatchFrom(_, _, _)
MatchFrom(t, i, words) ==
    /\ OccursAt(words[1], t, i)
    /\ LET e == i + Len(words[1]) IN
       IF Len(words) = 1 THEN BoundaryAt(t, e)
       ELSE \E k \in 1..(Len(t) - e + 1) :
               /\ \A x \in e..(e + k - 1) : t[x] \in Whitespace
               /\ MatchFrom(t, e + k, Tail(words))

\* re.search(r"\bw1\s+w2...\b", t)
Search(words, t) == \E i \in 1..Len(t) : BoundaryAt(t, i) /\ MatchFrom(t, i, words)

meta_words == { <<"p", "r", "o", "j", "e", "c", "t">>, <<"r", "e", "q", "u", "i", "r", "e", "m", "e", "n", "t", "s">>, <<"o", "b", "j", "e", "c", "t", "i", "v", "e">>, <<"o", "v", "e", "r", "v", "i", "e", "w">>, <<"h", "o", "w", " ", "i", "t", " ", "w", "o", "r", "k", "s">> }

booking_patterns ==
    { << <<"b", "o", "o", "k">> >>,
      << <<"b", "o", "o", "k">>, <<"a">> >>, << <<"b", "o", "o", "k">>, <<"a", "n">> >>, << <<"b", "o", "o", "k">>, <<"t", "h", "e">> >>,
      << <<"m", "a", "k", "e">>, <<"a">>, <<"b", "o", "o", "k", "i", "n", "g">> >>,
      << <<"c", "r", "e", "a", "t", "e">>, <<"a">>, <<"b", "o", "o", "k", "i", "n", "g">> >>,
      << <<"r", "e", "s", "e", "r", "v", "e">> >>,
      << <<"r", "e", "s", "e", "r", "v", "a", "t", "i", "o", "n">> >>,
      << <<"s", "c", "h", "e", "d", "u", "l", "e">> >>,
      << <<"a", "p", "p", "o", "i", "n", "t", "m", "e", "n", "t">> >>,
      << <<"c", "a", "n", "c", "e", "l">>, <<"m", "y">>, <<"b", "o", "o", "k", "i", "n", "g">> >>,
      << <<"c", "h", "a", "n", "g", "e">>, <<"m", "y">>, <<"b", "o", "o", "k", "i", "n", "g">> >> }

\* detect_intent without the test for meta words
detect_intent_PatternsFirst(text) ==
    LET lowered == strip(lower(text)) IN
    IF \E pat \in booking_patterns : Search(pat, lowered) THEN "booking"
    ELSE "general"

detect_intent(text) ==
    LET lowered == strip(lower(text)) IN
    IF \E word \in meta_words : Contains(lowered, word) THEN "general"
    ELSE IF \E pat \in booking_patterns : Search(pat, lowered) THEN "booking"
    ELSE "general"

-----------------------------------------------------------------------------
(* tools.py: rag_tool, as the router sees it: an answer, or a caught failure *)

RagAnswer == <<"(answer generated from the retrieved context)">>
RagError == <<"Gemini generation failed for all candidate models">>

ErrKeyMissing == <<"GEMINI_API_KEY is missing. Set it in .streamlit/secrets.toml and ensure the app maps it into the environment.">>
ErrLocalEmbedding == <<"(the exception of the local embedding model)">>

\* what a query can meet: whether the API key is set, whether documents are
\* stored, and whether the remote embedding, the local embedding and the
\* generation succeed when called
ProviderEnvs ==
    [api_key : BOOLEAN, store_empty : BOOLEAN, remote_embedding : BOOLEAN,
     local_embedding : BOOLEAN, generation : BOOLEAN]

Returned(value) == [raised |-> FALSE, value |-> value, exc |-> None]
Raised(exc) == [raised |-> TRUE, value |-> None, exc |-> exc]

\* rag_pipeline.py, answer_query: retrieval embeds the query when documents are
\* stored (remotely, and locally when the key is missing or the remote call
\* fails), then the key is required, then the answer is generated
answer_query(env) ==
    IF ~env.store_empty /\ ~(env.api_key /\ env.remote_embedding) /\ ~env.local_embedding
    THEN Raised(ErrLocalEmbedding)
    ELSE IF ~env.api_key THEN Raised(ErrKeyMissing)
    ELSE IF ~env.generation THEN Raised(RagError)
    ELSE Returned(RagAnswer)

\* tools.py, rag_tool: every exception of answer_query becomes a failure result
rag_tool(env) ==
    LET result == answer_query(env) IN
    IF result.raised THEN [success |-> FALSE, answer |-> None, error |-> result.exc]
    ELSE [success |-> TRUE, answer |-> result.value, error |-> None]

RagOutcomes == { rag_tool(env) : env \in ProviderEnvs }

\* the result when nothing fails
RagSuccess == [success |-> TRUE, answer |-> RagAnswer, error |-> None]

\* the results rag_tool can return in a call of the router: it is called, and
\* its result matters, only in a call that takes the general path
RagResultsFor(first) ==
    IF first.routed = "rag" THEN RagOutcomes ELSE {RagSuccess}

-----------------------------------------------------------------------------
(* chat_logic.py: handle_user_message *)

MsgTypeSomething == <<"Please type a message so I can assist you.">>
MsgAskedBefore == <<"You asked a similar question earlier. Here's the answer I shared before:\n\n">>
MsgNotSure == <<"I'm not fully sure based on the information I have. If you upload a PDF or provide more details, I can try again.">>

\* what a call leaves and returns; `added` lists the messages it passed to _add_message
Turn(history, state, text, data, route, added) ==
    [messages |-> history, booking_state |-> state, reply |-> text, payload |-> data,
     routed |-> route, added |-> added, raised |-> FALSE]

\* lines 180-186 and 193-199: call the booking flow, store its state, add its reply
RouteToBooking(history, current_state, input) ==
    LET r == handle_booking_flow(current_state, input) IN
    IF r.raised
    THEN [messages |-> history, booking_state |-> Some(r.new_state), reply |-> <<>>, payload |-> None,
          routed |-> "booking", added |-> <<Message("user", input)>>, raised |-> TRUE]
    ELSE Turn(add_message(history, "assistant", r.response_text), Some(r.new_state),
              r.response_text, r.booking_payload, "booking",
              <<Message("user", input), Message("assistant", r.response_text)>>)

\* (mutant) the answer of the general path is returned without being added to the history
RouteToRag_ReplyNotStored(history, current_state, input, rag) ==
    LET answer == IF rag.success /\ rag.answer # None THEN rag.answer
                  ELSE IF rag.error # None THEN MsgNotSure \o <<"\n\n(Details: ">> \o rag.error \o <<")">>
                  ELSE MsgNotSure
    IN  Turn(history, current_state, answer, None, "rag", <<Message("user", input)>>)

\* (mutant) the answer of rag_tool is returned as it is, also when there is none
RouteToRag_NoFallback(history, current_state, input, rag) ==
    LET answer == rag.answer
    IN  Turn(add_message(history, "assistant", answer), current_state, answer, None, "rag",
             <<Message("user", input), Message("assistant", answer)>>)

\* lines 201-216: the general path
RouteToRag(history, current_state, input, rag) ==
    LET answer == IF rag.success /\ rag.answer # None THEN rag.answer
                  ELSE IF rag.error # None THEN MsgNotSure \o <<"\n\n(Details: ">> \o rag.error \o <<")">>
                  ELSE MsgNotSure
    IN  Turn(add_message(history, "assistant", answer), current_state, answer, None, "rag",
             <<Message("user", input), Message("assistant", answer)>>)

\* (mutant) the intent alone decides, also while a dialogue is open
Dispatch_IntentOnly(history, current_state, input, rag) ==
    IF detect_intent(input) = "booking" THEN RouteToBooking(history, current_state, input)
    ELSE RouteToRag(history, current_state, input, rag)

\* lines 177-216: an open dialogue continues; otherwise the intent decides
Dispatch(history, current_state, input, rag) ==
    IF current_state # None /\ current_state[1].stage \in {"collecting", "confirm"}
    THEN RouteToBooking(history, current_state, input)
    ELSE IF detect_intent(input) = "booking" THEN RouteToBooking(history, current_state, input)
    ELSE RouteToRag(history, current_state, input, rag)

\* (mutant) a blank message is stored in the history like any other
handle_user_message_StoreBlank(history, current_state, raw, rag) ==
    LET input == strip(raw) IN
    IF input = <<>>
    THEN LET withUser == add_message(history, "user", input) IN
         Turn(add_message(withUser, "assistant", MsgTypeSomething), current_state,
              MsgTypeSomething, None, "empty",
              <<Message("user", input), Message("assistant", MsgTypeSomething)>>)
    ELSE LET withUser == add_message(history, "user", input)
             previous_answer == find_previous_answer_for_question(withUser, input)
         IN  IF previous_answer # None
             THEN LET text == MsgAskedBefore \o previous_answer[1] IN
                  Turn(add_message(withUser, "assistant", text), current_state, text, None, "duplicate",
                       <<Message("user", input), Message("assistant", text)>>)
             ELSE Dispatch(withUser, current_state, input, rag)

\* raw: the text the caller passes; rag: what rag_tool would return for it
handle_user_message(history, current_state, raw, rag) ==
    LET input == strip(raw) IN
    IF input = <<>>
    THEN Turn(add_message(history, "assistant", MsgTypeSomething), current_state,
              MsgTypeSomething, None, "empty", <<Message("assistant", MsgTypeSomething)>>)
    ELSE LET withUser == add_message(history, "user", input)
             previous_answer == find_previous_answer_for_question(withUser, input)
         IN  IF previous_answer # None
             THEN LET text == MsgAskedBefore \o previous_answer[1] IN
                  Turn(add_message(withUser, "assistant", text), current_state, text, None, "duplicate",
                       <<Message("user", input), Message("assistant", text)>>)
             ELSE Dispatch(withUser, current_state, input, rag)

-----------------------------------------------------------------------------
(* database.py and tools.py: the two tables, the inserts, and the tools the  *)
(* chat page calls with a booking payload                                    *)

\* what can happen to one call of a database function: it works; the connection cannot be opened;
\* the statement fails; the commit at the end of the with block fails and is rolled back
DbOutcomes == {"ok", "no_connection", "sql_error", "commit_error"}

\* the contextmanager raises when get_connection ends without yielding
ErrNoYield == <<"generator didn't yield">>

\* INTEGER PRIMARY KEY AUTOINCREMENT
NextId(rows) == Len(rows) + 1

RowIds(rows) == { rows[i].id : i \in 1..Len(rows) }

\* init_db(): creates the tables when they are missing; its errors are printed, except the missing
\* connection
init_db(outcome) == IF outcome = "no_connection" THEN Raised(ErrNoYield) ELSE Returned(None)

\* insert_customer(name, email, phone): the new id, or None when the statement failed; the id is
\* returned from inside the with block, before the commit
insert_customer(d, name, email, phone, outcome) ==
    LET id == NextId(d.customers)
        row == [id |-> id, name |-> name, email |-> email, phone |-> phone]
    IN  IF outcome = "no_connection" THEN [db |-> d, result |-> Raised(ErrNoYield)]
        ELSE IF outcome = "sql_error" THEN [db |-> d, result |-> Returned(None)]
        ELSE IF outcome = "commit_error" THEN [db |-> d, result |-> Returned(Some(id))]
        ELSE [db |-> [d EXCEPT !.customers = Append(@, row)], result |-> Returned(Some(id))]

\* insert_booking(customer_id, service, booking_date, booking_time, status, notes); with foreign
\* keys on, the statement fails for a customer_id that is not in customers
insert_booking(d, customer_id, service, booking_date, booking_time, status, notes, outcome) ==
    LET id == NextId(d.bookings)
        row == [id |-> id, customer_id |-> customer_id, service |-> service, booking_date |-> booking_date,
                booking_time |-> booking_time, status |-> status, notes |-> notes]
    IN  IF outcome = "no_connection" THEN [db |-> d, result |-> Raised(ErrNoYield)]
        ELSE IF outcome = "sql_error" \/ customer_id \notin RowIds(d.customers)
             THEN [db |-> d, result |-> Returned(None)]
        ELSE IF outcome = "commit_error" THEN [db |-> d, result |-> Returned(Some(id))]
        ELSE [db |-> [d EXCEPT !.bookings = Append(@, row)], result |-> Returned(Some(id))]

ErrMissingFields == <<"Missing required booking fields.">>
ErrCustomer == <<"Failed to create customer record.">>
ErrBooking == <<"Failed to create booking record.">>

\* the dict the tool returns
ToolResult(success, booking_id, customer_id, error) ==
    [success |-> success, booking_id |-> booking_id, customer_id |-> customer_id, error |-> error]

\* a call of a database function: what it returned or raised, and the size of the tables after it
Call(fn, result, d) ==
    [fn |-> fn, result |-> result, customers |-> Len(d.customers), bookings |-> Len(d.bookings)]

\* what a call of the tool did: the database after it, its result, the database functions it called
ToolRun(d, result, calls) == [db |-> d, result |-> result, calls |-> calls]

\* the outcomes of the three database calls of one run of the tool
PersistEnvs == [init : {"ok", "no_connection"}, customer : DbOutcomes, booking : DbOutcomes]

\* the tool reporting success as soon as the customer exists
booking_persistence_tool_CustomerIsEnough(d, booking, env) ==
    LET name == strip(Get(booking, "name"))
        email == strip(Get(booking, "email"))
        phone == strip(Get(booking, "phone"))
        booking_type == strip(Get(booking, "booking_type"))
        date == strip(Get(booking, "date"))
        time == strip(Get(booking, "time"))
        inited == init_db(env.init)
        customer == insert_customer(d, name, email, phone, env.customer)
        customer_id == customer.result.value
        made == insert_booking(customer.db, customer_id[1], booking_type, date, time, "confirmed", None,
                               env.booking)
        booking_id == made.result.value
        c1 == Call("init_db", inited, d)
        c2 == Call("insert_customer", customer.result, customer.db)
        c3 == Call("insert_booking", made.result, made.db)
    IN  IF \E v \in {name, email, phone, booking_type, date, time} : v = <<>>
        THEN ToolRun(d, ToolResult(FALSE, None, None, ErrMissingFields), <<>>)
        ELSE IF inited.raised
        THEN ToolRun(d, ToolResult(FALSE, None, None, inited.exc), <<c1>>)
        ELSE IF customer.result.raised
        THEN ToolRun(d, ToolResult(FALSE, None, None, customer.result.exc), <<c1, c2>>)
        ELSE IF customer_id = None
        THEN ToolRun(d, ToolResult(FALSE, None, None, ErrCustomer), <<c1, c2>>)
        ELSE IF made.result.raised
        THEN ToolRun(customer.db, ToolResult(FALSE, None, None, made.result.exc),
                     <<c1, c2, c3>>)
        ELSE ToolRun(made.db, ToolResult(TRUE, booking_id, customer_id, None),
                     <<c1, c2, c3>>)

\* booking_persistence_tool(booking): the whole body runs inside try/except Exception
booking_persistence_tool(d, booking, env) ==
    LET name == strip(Get(booking, "name"))
        email == strip(Get(booking, "email"))
        phone == strip(Get(booking, "phone"))
        booking_type == strip(Get(booking, "booking_type"))
        date == strip(Get(booking, "date"))
        time == strip(Get(booking, "time"))
        inited == init_db(env.init)
        customer == insert_customer(d, name, email, phone, env.customer)
        customer_id == customer.result.value
        made == insert_booking(customer.db, customer_id[1], booking_type, date, time, "confirmed", None,
                               env.booking)
        booking_id == made.result.value
        c1 == Call("init_db", inited, d)
        c2 == Call("insert_customer", customer.result, customer.db)
        c3 == Call("insert_booking", made.result, made.db)
    IN  IF \E v \in {name, email, phone, booking_type, date, time} : v = <<>>
        THEN ToolRun(d, ToolResult(FALSE, None, None, ErrMissingFields), <<>>)
        ELSE IF inited.raised
        THEN ToolRun(d, ToolResult(FALSE, None, None, inited.exc), <<c1>>)
        ELSE IF customer.result.raised
        THEN ToolRun(d, ToolResult(FALSE, None, None, customer.result.exc), <<c1, c2>>)
        ELSE IF customer_id = None
        THEN ToolRun(d, ToolResult(FALSE, None, None, ErrCustomer), <<c1, c2>>)
        ELSE IF made.result.raised
        THEN ToolRun(customer.db, ToolResult(FALSE, None, None, made.result.exc),
                     <<c1, c2, c3>>)
        ELSE IF booking_id = None
        THEN ToolRun(customer.db, ToolResult(FALSE, None, customer_id, ErrBooking),
                     <<c1, c2, c3>>)
        ELSE ToolRun(made.db, ToolResult(TRUE, booking_id, customer_id, None),
                     <<c1, c2, c3>>)

\* email_tool(to_email, subject, body): the message is accepted by the server, or the settings are
\* missing or the sending raises and the failure is returned
EmailOutcomes == {"sent", "failed"}
ErrEmailFailed == <<"SMTP error">>
email_tool(outcome) ==
    IF outcome = "sent" THEN [success |-> TRUE, error |-> None]
    ELSE [success |-> FALSE, error |-> ErrEmailFailed]

Email(to_email, booking_id) == [to_email |-> to_email, booking_id |-> booking_id]

\* the outcomes of the tool calls of one run of the page
PageEnvs == [persist : PersistEnvs, email : EmailOutcomes]
Working == [persist |-> [init |-> "ok", customer |-> "ok", booking |-> "ok"], email |-> "sent"]

\* what the page did after the router: the database and the outbox after it, and the page's record
PageWork(d, out, calls, db_calls, persist, email, status) ==
    [db |-> d, outbox |-> out,
     page |-> [calls |-> calls, db_calls |-> db_calls, persist |-> persist, email |-> email, status |-> status]]

\* the page sending the email whatever the persistence returned
persist_and_email_Regardless(d, out, booking_payload, env) ==
    IF booking_payload = None THEN PageWork(d, out, <<>>, <<>>, None, None, <<>>)
    ELSE LET run == booking_persistence_tool(d, booking_payload[1], env.persist)
             persist == run.result
             email_res == email_tool(env.email)
             sent == IF email_res.success
                     THEN Append(out, Email(booking_payload[1]["email"], persist.booking_id))
                     ELSE out
         IN  PageWork(run.db, sent, <<"booking_persistence_tool", "email_tool">>, run.calls, Some(persist),
                      Some(email_res),
                      IF email_res.success THEN <<"success", "success">>
                      ELSE <<"success", "warning", "info">>)

\* main.py lines 126-164: a payload is persisted; when that succeeded the confirmation is mailed;
\* every outcome only pushes status messages
persist_and_email(d, out, booking_payload, env) ==
    IF booking_payload = None THEN PageWork(d, out, <<>>, <<>>, None, None, <<>>)
    ELSE LET run == booking_persistence_tool(d, booking_payload[1], env.persist)
             persist == run.result
             email_res == email_tool(env.email)
             sent == IF email_res.success
                     THEN Append(out, Email(booking_payload[1]["email"], persist.booking_id))
                     ELSE out
         IN  IF persist.success
             THEN PageWork(run.db, sent, <<"booking_persistence_tool", "email_tool">>, run.calls, Some(persist),
                           Some(email_res),
                           IF email_res.success THEN <<"success", "success">>
                           ELSE <<"success", "warning", "info">>)
             ELSE PageWork(run.db, out, <<"booking_persistence_tool">>, run.calls, Some(persist), None, <<"error">>)

-----------------------------------------------------------------------------

(* SpecChat: turns of the chat page (main.py, _chat_page): the user's text goes *)
(* to handle_user_message, and a returned payload to booking_persistence_tool   *)

\* The user explored: in each turn the user either answers what the assistant
\* last asked for (Expected), or, at most MaxDetours times in a session, says
\* something else (DetourInputs: a blank message, small talk, a booking request
\* with other spacing and case).  A session has at most MaxTurns turns, enough
\* for the history to pass MAX_MESSAGES.
MaxTurns == 14
MaxDetours == 1

GoodValue ==
    [f \in FieldSet |->
        IF f = "name" THEN <<"A", "l">>
        ELSE IF f = "email" THEN <<"a", "@", "b", ".", "c">>
        ELSE IF f = "phone" THEN <<"5", "5", "5", "1", "2", "3", "4">>
        ELSE IF f = "booking_type" THEN <<"d", "e", "m", "o">>
        ELSE IF f = "date" THEN <<"2", "0", "2", "4", "-", "0", "2", "-", "2", "9">>
        ELSE <<"1", "4", ":", "3", "0">>]

\* what the assistant's last question asks for
Expected(state) ==
    IF state = None THEN { <<"b", "o", "o", "k", " ", "a", " ", "t", "a", "b", "l", "e">> }
    ELSE IF state[1].stage = "collecting" /\ state[1].awaiting_field \in FieldSet
         THEN { GoodValue[state[1].awaiting_field] }
    ELSE IF state[1].stage = "confirm" THEN { <<"y", "e", "s">>, <<"N", "o">> }
    ELSE { <<"r", "e", "s", "e", "r", "v", "e", " ", "a", " ", "t", "a", "b", "l", "e">> }

DetourInputs == { <<" ", " ">>, <<"h", "i">>, <<"R", "e", "s", "e", "r", "v", "e", " ", " ", "a", " ", "t", "a", "b", "l", "e", " ">>,
                  <<" ", "B", "O", "O", "K", " ", " ", "a", " ", "t", "a", "b", "l", "e">> }

\* one run of the page with a non-empty chat input (line 112 returns on an empty one), the tools
\* behaving in one of the ways of envs when they are called
PageRun(raw, envs) ==
    \E first \in {handle_user_message(messages, booking_state, raw, RagSuccess)} :
    \E rag \in RagResultsFor(first) :
    \E r \in {IF rag = RagSuccess THEN first ELSE handle_user_message(messages, booking_state, raw, rag)} :
    \E env \in (IF r.payload = None THEN {Working} ELSE envs) :
    \E work \in {persist_and_email(db, outbox, r.payload, env)} :
    /\ raw # <<>>
    /\ db' = work.db
    /\ outbox' = work.outbox
    /\ page' = work.page
    /\ messages' = r.messages
    /\ booking_state' = r.booking_state
    /\ reply' = r.reply
    /\ payload' = r.payload
    /\ routed' = IF r.raised THEN "raised" ELSE r.routed
    /\ rag_result' = IF r.routed = "rag" THEN Some(rag) ELSE None
    /\ appended' = appended \o r.added
    /\ persist_calls' = IF r.payload # None THEN persist_calls + 1 ELSE persist_calls
    /\ user_input' = raw
    /\ turns' = turns + 1
    /\ UNCHANGED <<log, uploaded, storeVars, callVars>>

ChatTurn ==
    /\ turns < MaxTurns
    /\ \E raw \in Expected(booking_state) : PageRun(raw, {Working})
    /\ UNCHANGED detours

ChatDetour ==
    /\ turns < MaxTurns
    /\ detours < MaxDetours
    /\ \E raw \in DetourInputs : PageRun(raw, {Working})
    /\ detours' = detours + 1

NextChat == ChatTurn \/ ChatDetour

SpecChat == Init /\ [][NextChat]_vars

-----------------------------------------------------------------------------
(* SpecRouter: handle_user_message called directly, with any of RouterInputs, *)
(* the empty text included, and any result of rag_tool                        *)

MaxCalls == 3

RouterInputs ==
    { <<>>, <<" ", " ">>, <<"h", "i">>, <<"b", "o", "o", "k", " ", "a", " ", "t", "a", "b", "l", "e">>, <<"A", "l">>, <<"w", "h", "a", "t", " ", "i", "s", " ", "t", "h", "i", "s", " ", "p", "r", "o", "j", "e", "c", "t", " ", "a", "b", "o", "u", "t">> }

RouterCall ==
    /\ turns < MaxCalls
    /\ \E raw \in RouterInputs :
       \E first \in {handle_user_message(messages, booking_state, raw, RagSuccess)} :
       \E rag \in RagResultsFor(first) :
       \E r \in {IF rag = RagSuccess THEN first ELSE handle_user_message(messages, booking_state, raw, rag)} :
          /\ messages' = r.messages
          /\ booking_state' = r.booking_state
          /\ reply' = r.reply
          /\ payload' = r.payload
          /\ routed' = IF r.raised THEN "raised" ELSE r.routed
          /\ rag_result' = IF r.routed = "rag" THEN Some(rag) ELSE None
          /\ appended' = appended \o r.added
          /\ user_input' = raw
          /\ turns' = turns + 1
    /\ UNCHANGED <<persist_calls, log, detours, storeVars, auxVars>>

NextRouter == RouterCall

SpecRouter == Init /\ [][NextRouter]_vars

-----------------------------------------------------------------------------
(* SpecAnyState: handle_booking_flow applied to any BookingState object, also *)
(* ones no dialogue produces: any stage, any subset of the fields set, any    *)
(* awaited field                                                              *)

MaxAnyCalls == 1

AnyBookings == { [f \in S |-> GoodValue[f]] : S \in SUBSET FieldSet }

AnyStates ==
    [booking : AnyBookings,
     stage : {"collecting", "confirm", "completed", "cancelled"},
     awaiting_field : FieldSet \cup {NoneField},
     confirmed : BOOLEAN]

AnyInputs == { <<>>, <<"Y", "e", "s">>, <<"n", "o">>, <<"A", "l">>, <<"1", "4", ":", "3", "0">> }

InitAnyState ==
    /\ booking_state \in { Some(s) : s \in AnyStates }
    /\ messages = <<>>
    /\ reply = <<>>
    /\ payload = None
    /\ user_input = <<>>
    /\ routed = "none"
    /\ persist_calls = 0
    /\ appended = <<>>
    /\ log = <<>>
    /\ rag_result = None
    /\ turns = 0
    /\ detours = 0
    /\ InitStore
    /\ InitAux

AnyCall ==
    /\ Len(log) < MaxAnyCalls
    /\ \E input \in AnyInputs :
          /\ CallFlow(input)
          /\ log' = Append(log, input)
    /\ UNCHANGED <<messages, routed, persist_calls, appended, rag_result, turns, detours, storeVars, auxVars>>

NextAnyState == AnyCall

SpecAnyState == InitAnyState /\ [][NextAnyState]_vars

-----------------------------------------------------------------------------
(* rag_pipeline.py: chunks, embeddings and the index *)

\* the uploads explored: no file, a PDF without extractable text, a PDF that
\* yields two chunks and one that yields one
FileLists == { <<>>, <<"blank.pdf">>, <<"a.pdf">>, <<"b.pdf">> }

NumChunks(file) == IF file = "a.pdf" THEN 2 ELSE IF file = "b.pdf" THEN 1 ELSE 0

DocumentChunk(source, part) == [source |-> source, part |-> part]

\* lines 186-197: the chunks of every page of every file, in order
RECURSIVE ChunksOf(_)
ChunksOf(files) ==
    IF files = <<>> THEN <<>>
    ELSE [k \in 1..NumChunks(files[1]) |-> DocumentChunk(files[1], k)] \o ChunksOf(Tail(files))

\* a row of the matrix: the embedding of a text by one of the two models
Row(text, tier) == [text |-> text, tier |-> tier]

\* the vector length of text-embedding-004 and of all-MiniLM-L6-v2
Dim(tier) == IF tier = "remote" THEN 768 ELSE 384

\* what a batch of n texts can meet: whether the API key is set, the item whose
\* remote embedding fails (0: none), whether the local model works
EmbedEnvs(n) == [api_key : BOOLEAN, remote_fails_at : 0..n, local_ok : BOOLEAN]

\* lines 135-143: the loop over the texts; a failure of any item leaves the try block
RECURSIVE RemoteVectors(_, _, _)
RemoteVectors(texts, i, env) ==
    IF i > Len(texts) THEN Returned(<<>>)
    ELSE IF env.remote_fails_at = i THEN Raised(<<"(the exception of genai.embed_content)">>)
    ELSE LET rest == RemoteVectors(texts, i + 1, env) IN
         IF rest.raised THEN rest ELSE Returned(<<Row(texts[i], "remote")>> \o rest.value)

\* lines 145-146: the local model encodes the whole batch
LocalVectors(texts, env) ==
    IF env.local_ok THEN Returned([i \in 1..Len(texts) |-> Row(texts[i], "local")])
    ELSE Raised(ErrLocalEmbedding)

\* (mutant) the remote vectors obtained before the failure are kept
embed_texts_KeepRemote(texts, env) ==
    IF texts = <<>> THEN Returned(<<>>)
    ELSE LET remote == IF env.api_key THEN RemoteVectors(texts, 1, env) ELSE Raised(ErrKeyMissing) IN
         IF ~remote.raised THEN remote
         ELSE LET local == LocalVectors(texts, env) IN
              IF local.raised THEN local
              ELSE Returned([i \in 1..Len(texts) |->
                                IF env.api_key /\ i < env.remote_fails_at
                                THEN Row(texts[i], "remote") ELSE local.value[i]])

\* _embed_texts
embed_texts(texts, env) ==
    IF texts = <<>> THEN Returned(<<>>)
    ELSE LET remote == IF env.api_key THEN RemoteVectors(texts, 1, env) ELSE Raised(ErrKeyMissing) IN
         IF ~remote.raised THEN remote ELSE LocalVectors(texts, env)

\* np.vstack([a, b]): the rows of a, then those of b; the row lengths must agree
vstack(a, b) ==
    IF \E i \in 1..Len(a), j \in 1..Len(b) : Dim(a[i].tier) # Dim(b[j].tier)
    THEN Raised(<<"all the input array dimensions except for the concatenation axis must match exactly">>)
    ELSE Returned(a \o b)

-----------------------------------------------------------------------------
(* rag_pipeline.py: ingest_pdfs, one action per access to the shared store.   *)
(* Work on local values is joined to the next access of the shared variables. *)

MaxIngests == 2

Finished(pc) == pc \in {"idle", "done", "failed"}

\* no call is running
Quiet == (\A t \in Threads : Finished(ingest[t].pc)) /\ Finished(retrieval.pc)

\* lines 181-201: the chunks of the files; a call without files or without
\* chunks returns 0; otherwise start_index = len(_chunks)
IngestBegin(t, files) ==
    /\ Finished(ingest[t].pc)
    /\ ingest_calls < MaxIngests
    /\ ingest_calls' = ingest_calls + 1
    /\ LET new_chunks == ChunksOf(files) IN
       ingest' = [ingest EXCEPT ![t] =
                    IF files = <<>> \/ new_chunks = <<>>
                    THEN [IdleIngest EXCEPT !.pc = "done", !.returned = Some(0)]
                    ELSE [IdleIngest EXCEPT !.pc = "extend", !.new_chunks = new_chunks,
                                            !.start_index = Len(chunks)]]
    /\ UNCHANGED <<chunks, embeddings, faiss_index, retrieval, ingest_failures, chatVars, auxVars>>

\* (mutant) line 202 appending only the chunks the store does not hold yet
IngestExtend_SkipStored(t) ==
    /\ ingest[t].pc = "extend"
    /\ chunks' = chunks \o SelectSeq(ingest[t].new_chunks,
                                     LAMBDA c : \A i \in 1..Len(chunks) : chunks[i] # c)
    /\ ingest' = [ingest EXCEPT ![t].pc = "embed"]
    /\ UNCHANGED <<embeddings, faiss_index, retrieval, ingest_calls, ingest_failures, chatVars, auxVars>>

\* line 202: _chunks.extend(new_chunks)
IngestExtend(t) ==
    /\ ingest[t].pc = "extend"
    /\ chunks' = chunks \o ingest[t].new_chunks
    /\ ingest' = [ingest EXCEPT ![t].pc = "embed"]
    /\ UNCHANGED <<embeddings, faiss_index, retrieval, ingest_calls, ingest_failures, chatVars, auxVars>>

\* lines 205-207: new_embs = _embed_texts(...), which may raise; then the test
\* of _embeddings decides between assigning new_embs and stacking
IngestEmbed(t) ==
    /\ ingest[t].pc = "embed"
    /\ \E env \in EmbedEnvs(Len(ingest[t].new_chunks)) :
       \E r \in {embed_texts(ingest[t].new_chunks, env)} :
          /\ ingest' = [ingest EXCEPT ![t] =
                       IF r.raised THEN [@ EXCEPT !.pc = "failed"]
                       ELSE IF embeddings = <<>>
                       THEN [@ EXCEPT !.pc = "write", !.env = Some(env), !.new_embs = r.value,
                                      !.pending = r.value]
                       ELSE [@ EXCEPT !.pc = "stack", !.env = Some(env), !.new_embs = r.value]]
          /\ ingest_failures' = IF r.raised THEN ingest_failures + 1 ELSE ingest_failures
    /\ UNCHANGED <<chunks, embeddings, faiss_index, retrieval, ingest_calls, chatVars, auxVars>>

\* line 210, right-hand side: np.vstack([_embeddings, new_embs]), which may raise
IngestStack(t) ==
    /\ ingest[t].pc = "stack"
    /\ \E r \in {vstack(embeddings, ingest[t].new_embs)} :
          /\ ingest' = [ingest EXCEPT ![t] =
                       IF r.raised THEN [@ EXCEPT !.pc = "failed", !.env = <<>>]
                       ELSE [@ EXCEPT !.pc = "write", !.env = <<>>, !.pending = r.value]]
          /\ ingest_failures' = IF r.raised THEN ingest_failures + 1 ELSE ingest_failures
    /\ UNCHANGED <<chunks, embeddings, faiss_index, retrieval, ingest_calls, chatVars, auxVars>>

\* lines 208 and 210: the assignment to _embeddings
IngestWrite(t) ==
    /\ ingest[t].pc = "write"
    /\ embeddings' = ingest[t].pending
    /\ ingest' = [ingest EXCEPT ![t].pc = "index", ![t].env = <<>>]
    /\ UNCHANGED <<chunks, faiss_index, retrieval, ingest_calls, ingest_failures, chatVars, auxVars>>

\* line 212 and lines 158-164: _ensure_index(_embeddings) reads the matrix and
\* builds a new index over it
IngestBuildIndex(t) ==
    /\ ingest[t].pc = "index"
    /\ ingest' = [ingest EXCEPT ![t].pc = "publish", ![t].pending = embeddings]
    /\ UNCHANGED <<chunks, embeddings, faiss_index, retrieval, ingest_calls, ingest_failures, chatVars, auxVars>>

\* line 165: _faiss_index = index
IngestPublish(t) ==
    /\ ingest[t].pc = "publish"
    /\ faiss_index' = ingest[t].pending
    /\ ingest' = [ingest EXCEPT ![t].pc = "return"]
    /\ UNCHANGED <<chunks, embeddings, retrieval, ingest_calls, ingest_failures, chatVars, auxVars>>

\* line 214 returning the size of the store
IngestReturn_StoreSize(t) ==
    /\ ingest[t].pc = "return"
    /\ ingest' = [ingest EXCEPT ![t].pc = "done", ![t].returned = Some(Len(chunks))]
    /\ UNCHANGED <<chunks, embeddings, faiss_index, retrieval, ingest_calls, ingest_failures, chatVars, auxVars>>

\* line 214: return len(_chunks) - start_index
IngestReturn(t) ==
    /\ ingest[t].pc = "return"
    /\ ingest' = [ingest EXCEPT ![t].pc = "done",
                                ![t].returned = Some(Len(chunks) - ingest[t].start_index)]
    /\ UNCHANGED <<chunks, embeddings, faiss_index, retrieval, ingest_calls, ingest_failures, chatVars, auxVars>>

IngestStep(t) ==
    \/ IngestExtend(t)
    \/ IngestEmbed(t)
    \/ IngestStack(t)
    \/ IngestWrite(t)
    \/ IngestBuildIndex(t)
    \/ IngestPublish(t)
    \/ IngestReturn(t)

-----------------------------------------------------------------------------
(* rag_pipeline.py: _retrieve_relevant_chunks, one action per access to the   *)
(* shared store                                                               *)

top_k == 5

\* the questions asked: each is about one of the files
Queries == {"a.pdf", "b.pdf"}

\* the values of the parameter top_k: the default and a smaller one
TopKs == {2, top_k}

\* the inner product of the normalised query vector with a row, as a rank: a
\* question is closest to the later parts of the file it is about and equally
\* far from every part of another file
Similarity(query, row) == IF row.text.source = query THEN row.text.part ELSE 0

\* _faiss_index.search(query_vec, k): k labels, best score first; the labels of
\* the min(k, rows) best rows (any order among equal scores), then -1 for each
\* missing one (position 0 here: positions count from 1)
search(rows, query, k) ==
    LET n == IF k < Len(rows) THEN k ELSE Len(rows)
        score(i) == Similarity(query, rows[i])
        best == { h \in [1..n -> 1..Len(rows)] :
                    /\ \A i, j \in 1..n : i < j => h[i] # h[j] /\ score(h[i]) >= score(h[j])
                    /\ \A i \in 1..Len(rows) :
                          (\A j \in 1..n : h[j] # i) => \A j \in 1..n : score(h[j]) >= score(i) }
    IN  { [j \in 1..k |-> IF j <= n THEN [position |-> h[j], score |-> score(h[j])]
                                    ELSE [position |-> 0, score |-> -1]] : h \in best }

\* idx < 0 or idx >= len(_chunks), for positions counted from 1
OutOfRange(stored, hit) == hit.position < 1 \/ hit.position > Len(stored)

\* the loop of lines 261-265 putting each pair in front of the ones before
collect_Prepend(stored, rows, hits) ==
    LET kept == SelectSeq(hits, LAMBDA hit : ~OutOfRange(stored, hit))
    IN  [j \in 1..Len(kept) |->
            LET hit == kept[Len(kept) + 1 - j]
            IN  [position |-> hit.position, chunk |-> stored[hit.position],
                 row |-> rows[hit.position], score |-> hit.score]]

\* lines 261-265: every label that is a position of _chunks is paired with the
\* chunk stored there and its score, in the order of the labels
collect(stored, rows, hits) ==
    LET kept == SelectSeq(hits, LAMBDA hit : ~OutOfRange(stored, hit))
    IN  [j \in 1..Len(kept) |->
            [position |-> kept[j].position, chunk |-> stored[kept[j].position],
             row |-> rows[kept[j].position], score |-> kept[j].score]]

\* line 230: nothing stored, nothing to retrieve
RetrieveStart(query, k) ==
    /\ Finished(retrieval.pc)
    /\ retrieval' = IF chunks = <<>> \/ embeddings = <<>>
                    THEN [IdleRetrieval EXCEPT !.pc = "done", !.query = query, !.k = k]
                    ELSE [IdleRetrieval EXCEPT !.pc = "embed", !.query = query, !.k = k]
    /\ UNCHANGED <<chunks, embeddings, faiss_index, ingest, ingest_calls, ingest_failures, chatVars, auxVars>>

\* lines 233-252: the query vector comes from the remote model or, when that
\* fails, from the local one, which may raise; then _faiss_index is tested
RetrieveEmbed ==
    /\ retrieval.pc = "embed"
    /\ \E tier \in {"remote", "local", "none"} :
          retrieval' = IF tier = "none" THEN [retrieval EXCEPT !.pc = "failed"]
                       ELSE IF faiss_index = <<>> THEN [retrieval EXCEPT !.pc = "index", !.tier = tier]
                       ELSE [retrieval EXCEPT !.pc = "search", !.tier = tier]
    /\ UNCHANGED <<chunks, embeddings, faiss_index, ingest, ingest_calls, ingest_failures, chatVars, auxVars>>

\* line 253 and lines 158-164: _ensure_index(_embeddings) reads the matrix
RetrieveBuildIndex ==
    /\ retrieval.pc = "index"
    /\ retrieval' = [retrieval EXCEPT !.pc = "publish", !.pending = embeddings]
    /\ UNCHANGED <<chunks, embeddings, faiss_index, ingest, ingest_calls, ingest_failures, chatVars, auxVars>>

\* line 165: _faiss_index = index
RetrievePublish ==
    /\ retrieval.pc = "publish"
    /\ faiss_index' = retrieval.pending
    /\ retrieval' = [retrieval EXCEPT !.pc = "search"]
    /\ UNCHANGED <<chunks, embeddings, ingest, ingest_calls, ingest_failures, chatVars, auxVars>>

\* lines 257-266: the index is searched for the min(top_k, len(_chunks)) best
\* rows and the labels it returns are paired with the chunks.  A query vector
\* of another length than the rows makes the search raise.
RetrieveSearch ==
    /\ retrieval.pc = "search"
    /\ LET rows == faiss_index
           k == IF retrieval.k < Len(chunks) THEN retrieval.k ELSE Len(chunks)
       IN  IF \E i \in 1..Len(rows) : Dim(rows[i].tier) # Dim(retrieval.tier)
           THEN retrieval' = [retrieval EXCEPT !.pc = "failed"]
           ELSE \E hits \in search(rows, retrieval.query, k) :
                   retrieval' = [retrieval EXCEPT !.pc = "done", !.results = collect(chunks, rows, hits)]
    /\ UNCHANGED <<chunks, embeddings, faiss_index, ingest, ingest_calls, ingest_failures, chatVars, auxVars>>

RetrieveStep ==
    \/ RetrieveEmbed
    \/ RetrieveBuildIndex
    \/ RetrievePublish
    \/ RetrieveSearch

-----------------------------------------------------------------------------
(* SpecStore: calls of ingest_pdfs and of retrieval, one after the other *)

\* (a retrieval that runs alone never finds the index missing over a non-empty
\* matrix, so it never builds one)
NextStore ==
    \/ \E files \in FileLists : Quiet /\ IngestBegin(1, files)
    \/ IngestStep(1)
    \/ \E query \in Queries, k \in TopKs : Quiet /\ RetrieveStart(query, k)
    \/ RetrieveEmbed
    \/ RetrieveSearch

SpecStore == Init /\ [][NextStore]_vars

-----------------------------------------------------------------------------
(* SpecConcurrent: two threads that call ingest_pdfs and one that retrieves, *)
(* interleaved at the accesses to the shared store                           *)

NextConcurrent ==
    \/ \E t \in Threads, files \in FileLists : IngestBegin(t, files)
    \/ \E t \in Threads : IngestStep(t)
    \/ RetrieveStart("a.pdf", top_k)
    \/ RetrieveStep

SpecConcurrent == Init /\ [][NextConcurrent]_vars

-----------------------------------------------------------------------------
(* SpecReadDuringIngest: one thread calls ingest_pdfs, call after call, while *)
(* another retrieves, interleaved at the accesses to the shared store         *)

NextReadDuringIngest ==
    \/ \E files \in FileLists : IngestBegin(1, files)
    \/ IngestStep(1)
    \/ RetrieveStart("a.pdf", top_k)
    \/ RetrieveStep

SpecReadDuringIngest == Init /\ [][NextReadDuringIngest]_vars

-----------------------------------------------------------------------------
(* Properties of handle_booking_flow *)

Stage == IF booking_state = None THEN "none" ELSE booking_state[1].stage
BookingOf(bs) == IF bs = None THEN EmptyBooking ELSE bs[1].booking
Booking == BookingOf(booking_state)
Awaiting == IF booking_state = None THEN NoneField ELSE booking_state[1].awaiting_field
Confirmed == booking_state # None /\ booking_state[1].confirmed

YesTokens == {<<"y", "e", "s">>, <<"y">>, <<"c", "o", "n", "f", "i", "r", "m">>, <<"s", "u", "r", "e">>}
NoTokens == {<<"n", "o">>, <<"n">>, <<"c", "a", "n", "c", "e", "l">>}

\* C1: a call returns a payload only when, on return, stage is 'completed' and
\* confirmed is true; a call returning with stage 'collecting', 'confirm' or
\* 'cancelled' returns no payload.
C1_PayloadOnlyWhenCompleted ==
    payload # None => (Stage = "completed" /\ Confirmed)

C1_Witness == payload # None /\ reply = MsgConfirmed /\ Stage = "completed"

\* C3: in stage 'confirm', a call with any case variant of 'no', 'n' or 'cancel'
\* sets stage 'cancelled' and confirmed false, returns no payload and leaves every
\* field of the record as it was.
C3_NoCancelsAndKeepsRecord ==
    [][ (Stage = "confirm" /\ lower(user_input') \in NoTokens)
        => /\ booking_state' # None
           /\ booking_state'[1].stage = "cancelled"
           /\ booking_state'[1].confirmed = FALSE
           /\ payload' = None
           /\ BookingOf(booking_state') = Booking ]_vars

C3_Witness ==
    /\ Stage = "cancelled"
    /\ user_input = <<"N", "O">>
    /\ reply = MsgCancelled
    /\ DOMAIN Booking = FieldSet

\* C4: in stage 'confirm', a call whose text is empty, or is non-empty but neither
\* an affirmative nor a negative token, returns a yes/no re-prompt with no payload
\* and leaves stage, record, awaiting_field and confirmed unchanged.
C4_RepromptChangesNothing ==
    [][ (Stage = "confirm" /\ lower(strip(user_input')) \notin (YesTokens \cup NoTokens))
        => /\ booking_state' = booking_state
           /\ payload' = None
           /\ reply' = IF strip(user_input') = <<>> THEN MsgConfirmEmpty ELSE MsgConfirmOther ]_vars

C4_Witness ==
    /\ Stage = "confirm"
    /\ reply = MsgConfirmOther
    /\ strip(user_input) # <<>>

\* C5: whenever a call returns with stage 'collecting', awaiting_field is set and is
\* the first field, in the order name, email, phone, booking_type, date, time, that
\* has no value in the record.
C5_AwaitingIsFirstUnset ==
    Stage = "collecting" =>
        \E i \in 1..Len(REQUIRED_FIELDS) :
            /\ Awaiting = REQUIRED_FIELDS[i]
            /\ Get(Booking, REQUIRED_FIELDS[i]) = <<>>
            /\ \A j \in 1..(i - 1) : Get(Booking, REQUIRED_FIELDS[j]) # <<>>

C5_Witness == Stage = "collecting" /\ Awaiting = "date"

\* C6: in stage 'collecting' with an awaiting_field set, a call whose input fails
\* that field's validation returns the validation error with no payload and changes
\* nothing; an empty input re-prompts for the same field with no state change.
C6_InvalidInputChangesNothing ==
    [][ (Stage = "collecting" /\ Awaiting # NoneField
            /\ (strip(user_input') = <<>> \/ ~validate_field(Awaiting, user_input').is_valid))
        => /\ booking_state' = booking_state
           /\ payload' = None
           /\ reply' = IF strip(user_input') = <<>>
                       THEN MsgDidntCatch \o field_prompt(Awaiting)
                       ELSE validate_field(Awaiting, user_input').error ]_vars

C6_Witness ==
    /\ Stage = "collecting"
    /\ Awaiting = "date"
    /\ reply = ErrDate
    /\ user_input = <<"2", "0", "2", "3", "-", "0", "2", "-", "2", "9">>

\* C7: each call sets at most one field of the record, and a field that has a value
\* is never removed or overwritten by a later call.
C7_OneFieldPerCallNoneLost ==
    [][ /\ \A f \in DOMAIN Booking :
              f \in DOMAIN BookingOf(booking_state') /\ BookingOf(booking_state')[f] = Booking[f]
        /\ Cardinality((DOMAIN BookingOf(booking_state')) \ (DOMAIN Booking)) <= 1 ]_vars

C7_Witness == Cardinality(DOMAIN Booking) >= 3 /\ Stage = "collecting"

RECURSIVE FieldIndex(_, _)
FieldIndex(f, i) == IF REQUIRED_FIELDS[i] = f THEN i ELSE FieldIndex(f, i + 1)

\* C2: from no state, an opening call followed by six calls carrying valid values
\* for name, email, phone, booking_type, date, time in that order leaves stage
\* 'confirm' with a summary reply containing all six values; a following call with
\* a case variant of 'yes', 'y', 'confirm' or 'sure' sets stage 'completed',
\* confirmed true, and returns a payload whose six fields are exactly the six
\* trimmed values entered.
C2_ScriptedDialogueCompletes ==
    /\ Len(log) = Len(REQUIRED_FIELDS) + 1 =>
          /\ Stage = "confirm"
          /\ payload = None
          /\ \A k \in 1..Len(REQUIRED_FIELDS) : Contains(reply, strip(log[k + 1]))
    /\ Len(log) = Len(REQUIRED_FIELDS) + 2 =>
          /\ lower(log[Len(log)]) \in YesTokens
          /\ Stage = "completed"
          /\ Confirmed
          /\ payload = Some([f \in FieldSet |-> strip(log[FieldIndex(f, 1) + 1])])

C2_Witness ==
    /\ Len(log) = Len(REQUIRED_FIELDS) + 2
    /\ payload # None
    /\ log[2] = <<" ", "A", "l", " ">>
    /\ log[Len(log)] = <<"s", "U", "r", "E">>

-----------------------------------------------------------------------------
(* Properties of the router and the chat page *)

\* C8: at the router, when the stored booking state is 'cancelled' or 'completed'
\* and a new non-duplicate message with booking intent arrives, the dialogue state
\* is reset and a fresh dialogue starts: the record is empty, stage is 'collecting',
\* and the reply is the prompt for the name field.
C8_FreshIntentResetsDialogue ==
    [][ (Stage \in {"cancelled", "completed"} /\ routed' = "booking")
        => /\ BookingOf(booking_state') = EmptyBooking
           /\ booking_state'[1].stage = "collecting"
           /\ reply' = field_prompt("name") ]_vars

\* C9: for a dialogue that reaches 'completed', the router returns a payload in
\* exactly one turn (the confirming turn): once the stage is 'completed', no later
\* user message makes the router return the payload, or the page call persistence,
\* again.
C9_PayloadReturnedOnce ==
    [][ Stage = "completed" => (payload' = None /\ persist_calls' = persist_calls) ]_vars

LastN(s, n) == IF Len(s) <= n THEN s ELSE SubSeq(s, Len(s) - n + 1, Len(s))

\* C10: after any sequence of calls the history holds at most 25 entries and is
\* exactly the most recent entries of the full sequence of appended messages, in
\* their original order.
C10_HistoryIsLast25 ==
    /\ Len(messages) <= 25
    /\ messages = LastN(appended, 25)

C10_Witness == Len(appended) > 25 /\ Len(messages) = 25 /\ messages[1] = appended[Len(appended) - 24]

\* the history as the duplicate check scans it: the stored history with the
\* current user message added
Scanned(input) == add_message(messages, "user", input)

\* the earlier user messages of h with the normalised text norm that have an
\* assistant message after them
EarlierOccurrences(h, norm) ==
    {i \in 1..(Len(h) - 1) :
        /\ h[i].role = "user"
        /\ normalize_text(h[i].content) = norm
        /\ \E j \in (i + 1)..Len(h) : h[j].role = "assistant"}

Least(S) == CHOOSE x \in S : \A y \in S : x <= y

\* the first assistant message after position i of h
FirstReplyAfter(h, i) == h[Least({j \in (i + 1)..Len(h) : h[j].role = "assistant"})].content

\* C11: when a non-empty message has the normalised form of an earlier user
\* message still in the history that is followed by an assistant message, the
\* router replies with the notice followed verbatim by the first assistant message
\* after the earliest such occurrence, calls neither the answerer nor the booking
\* state machine, returns no payload and leaves the booking state unchanged,
\* whether or not a booking dialogue is open.
C11_DuplicateAnsweredFromHistory ==
    [][ \A input \in {strip(user_input')} :
        \A h \in {Scanned(input)} :
        \A earlier \in {EarlierOccurrences(h, normalize_text(input))} :
            (input # <<>> /\ earlier # {})
            => /\ routed' = "duplicate"
               /\ reply' = MsgAskedBefore \o FirstReplyAfter(h, Least(earlier))
               /\ payload' = None
               /\ booking_state' = booking_state ]_vars

\* a repeated message answered from the history while a dialogue is open
C11_Witness ==
    /\ routed = "duplicate"
    /\ Stage \in {"collecting", "confirm"}
    /\ reply = MsgAskedBefore \o field_prompt("name")


\* C12: while the stored stage is 'collecting' or 'confirm', every non-empty
\* message that is not a duplicate is passed to the booking state machine and
\* never to the answerer, whatever detect_intent returns for it.
C12_OpenDialogueGoesToBooking ==
    [][ \A input \in {strip(user_input')} :
        (/\ Stage \in {"collecting", "confirm"}
         /\ input # <<>>
         /\ EarlierOccurrences(Scanned(input), normalize_text(input)) = {})
        => routed' = "booking" ]_vars

\* a message without booking intent answered by the booking state machine at the
\* confirmation step
C12_Witness ==
    /\ routed = "booking"
    /\ detect_intent(strip(user_input)) = "general"
    /\ user_input = <<"h", "i">>
    /\ Stage = "confirm"
    /\ reply = MsgConfirmOther


\* C13: for an empty or whitespace-only message the router returns the
\* prompt-for-input reply with no payload, adds only that reply (no user entry)
\* to the history, leaves the booking state unchanged and calls neither the
\* booking state machine nor the answerer.
C13_BlankMessagePromptsOnly ==
    [][ strip(user_input') = <<>>
        => /\ reply' = MsgTypeSomething
           /\ payload' = None
           /\ messages' = add_message(messages, "assistant", MsgTypeSomething)
           /\ appended' = Append(appended, Message("assistant", MsgTypeSomething))
           /\ booking_state' = booking_state
           /\ routed' = "empty"
           /\ rag_result' = None ]_vars

\* a whitespace-only message sent while a dialogue is open
C13_Witness ==
    /\ routed = "empty"
    /\ user_input = <<" ", " ">>
    /\ Stage = "collecting"
    /\ messages[Len(messages)] = Message("assistant", MsgTypeSomething)
    /\ messages[Len(messages) - 1].role = "assistant"


IsPrefix(p, s) == Len(p) <= Len(s) /\ SubSeq(s, 1, Len(p)) = p

RagFailed(result) == result # None /\ ~result[1].success

\* C14: handle_user_message never raises: every call returns a non-empty reply
\* and appends it to the history, and when the embedding provider, the generation
\* provider or the API-key configuration fails on the general path, the reply is
\* the 'not fully sure' fallback, the payload is None and the booking state is
\* left unchanged.
C14_ProviderFailureYieldsFallback ==
    [][ /\ routed' # "raised"
        /\ reply' # <<>>
        /\ messages'[Len(messages')] = Message("assistant", reply')
        /\ RagFailed(rag_result')
           => /\ rag_result'[1].error \in {ErrLocalEmbedding, ErrKeyMissing, RagError}
              /\ IsPrefix(MsgNotSure, reply')
              /\ payload' = None
              /\ booking_state' = booking_state ]_vars

\* a general question after a completed booking, with the local embedding failing
C14_Witness ==
    /\ RagFailed(rag_result)
    /\ rag_result[1].error = ErrLocalEmbedding
    /\ Stage = "completed"
    /\ reply = MsgNotSure \o <<"\n\n(Details: ">> \o ErrLocalEmbedding \o <<")">>
    /\ messages[Len(messages)].content = reply


-----------------------------------------------------------------------------
(* Properties of the terminal stages *)

AllFieldsPresent(booking) == \A f \in FieldSet : Get(booking, f) # <<>>

\* C15: for any state with stage 'completed' passed to handle_booking_flow: when
\* all six required fields are present the call returns the already-confirmed
\* message with the payload of the record and changes no state; when some field
\* is missing it returns the already-confirmed message with no payload and
\* changes no state (the stage stays 'completed').
C15_CompletedStateIsOnlyAcknowledged ==
    [][ Stage = "completed"
        => /\ reply' = MsgAlreadyConfirmed
           /\ booking_state' = booking_state
           /\ payload' = IF AllFieldsPresent(Booking) THEN Some(BookingData(Booking)) ELSE None ]_vars

\* the first half of C15 alone: a completed state with a full record
CompletedFullRecordReplaysPayload ==
    [][ (Stage = "completed" /\ AllFieldsPresent(Booking))
        => /\ reply' = MsgAlreadyConfirmed
           /\ booking_state' = booking_state
           /\ payload' = Some(BookingData(Booking)) ]_vars

\* C16: once a dialogue's stage is 'cancelled', every later call, for any input,
\* returns the flow-cancelled message with no payload and leaves the stage, the
\* record and confirmed unchanged.
C16_CancelledStaysCancelled ==
    [][ Stage = "cancelled"
        => /\ reply' = MsgFlowCancelled
           /\ payload' = None
           /\ booking_state' = booking_state ]_vars

\* an affirmative answer given to a cancelled dialogue
C16_Witness ==
    /\ Stage = "cancelled"
    /\ reply = MsgFlowCancelled
    /\ user_input = <<"Y", "e", "s">>
    /\ AllFieldsPresent(Booking)
    /\ ~Confirmed


-----------------------------------------------------------------------------
(* Properties of the document store *)

\* row i is the embedding of chunk i, for every chunk
Aligned ==
    /\ Len(chunks) = Len(embeddings)
    /\ \A i \in 1..Len(chunks) : embeddings[i].text = chunks[i]

\* C17: after every ingest_pdfs call finishes, whether it returns or raises
\* because the embedding (both tiers) or the stacking failed, the number of
\* stored chunks equals the number of rows of the matrix and row i is the
\* embedding of chunk i.
C17_StoreAlignedAfterEveryIngest ==
    Finished(ingest[1].pc) => Aligned

\* the same while no call has raised
StoreAlignedWhileNothingRaised ==
    (Finished(ingest[1].pc) /\ ingest_failures = 0) => Aligned


\* C18: when two ingest_pdfs calls run concurrently, the appending of chunks and
\* of rows and the rebuilding of the index of one call are not interleaved with
\* those of the other: after both have returned, the chunk count equals the row
\* count, no row is lost and row i is the embedding of chunk i.
C18_ConcurrentIngestsKeepStoreAligned ==
    (/\ \A t \in Threads : ingest[t].pc = "done" /\ ingest[t].new_chunks # <<>>
     /\ ingest_failures = 0)
    => Aligned


\* every returned pair joins a position of the index with the chunk whose
\* embedding is the row at that position
ResultsPaired == \A j \in 1..Len(retrieval.results) : retrieval.results[j].row.text = retrieval.results[j].chunk

\* C19: a retrieval that runs concurrently with an ingest_pdfs call never sees a
\* half-updated store: every (chunk, score) pair it returns pairs an index
\* position with the chunk whose embedding is stored at that position (and the
\* results are those over the store before or after the ingestion).
C19_RetrievalPairsChunkWithItsRow ==
    retrieval.pc = "done" => ResultsPaired

\* the same while no ingest_pdfs call has raised, with the second half: the
\* positions returned are all those of the store before the running (or last)
\* ingestion, or all those of the store as it is
RetrievalConsistentWhileNothingRaised ==
    (retrieval.pc = "done" /\ ingest_failures = 0)
    => /\ ResultsPaired
       /\ \E n \in {0, ingest[1].start_index, Len(chunks)} :
             { retrieval.results[j].position : j \in 1..Len(retrieval.results) } = 1..n


\* the remote embedding failed for some item of a batch of n texts
RemoteFailed(env, n) == ~env.api_key \/ env.remote_fails_at \in 1..n

\* C20: _embed_texts returns one row per input text, in input order (no rows for
\* an empty input); when the remote embedding fails for any item, every row
\* comes from the local model; a returned matrix never mixes rows of the two.
C20_EmbedTextsOneTierInOrder ==
    /\ \A env \in EmbedEnvs(0) : embed_texts(<<>>, env) = Returned(<<>>)
    /\ \A t \in Threads :
         ingest[t].env # <<>> =>
            LET env == ingest[t].env[1]
                texts == ingest[t].new_chunks
                rows == ingest[t].new_embs
            IN  /\ Len(rows) = Len(texts)
                /\ \A i \in 1..Len(texts) : rows[i].text = texts[i]
                /\ \A i, j \in 1..Len(rows) : rows[i].tier = rows[j].tier
                /\ RemoteFailed(env, Len(texts)) => \A i \in 1..Len(rows) : rows[i].tier = "local"
                /\ ~RemoteFailed(env, Len(texts)) => \A i \in 1..Len(rows) : rows[i].tier = "remote"

\* the remote embedding of the second of two texts failed after the first succeeded
C20_Witness ==
    /\ ingest[1].env # <<>>
    /\ ingest[1].env[1].api_key
    /\ ingest[1].env[1].remote_fails_at = 2
    /\ Len(ingest[1].new_embs) = 2
    /\ \A i \in 1..2 : ingest[1].new_embs[i] = Row(ingest[1].new_chunks[i], "local")

-----------------------------------------------------------------------------
(* SpecChunk: one _chunk_text call on any small text under any small        *)
(* configured chunk size and overlap, one action per pass of the while loop *)

MaxTextLen == 5
MaxChunkSize == 3
MaxChunkOverlap == 3
MaxIterations == 7

Min(a, b) == IF a <= b THEN a ELSE b
Max(a, b) == IF a >= b THEN a ELSE b

\* the text of a page: letters and blanks
ChunkAlphabet == {"a", " "}
ChunkTexts == UNION { [1..n -> ChunkAlphabet] : n \in 0..MaxTextLen }
\* RAG_CHUNK_SIZE and RAG_CHUNK_OVERLAP, drawn small
ChunkSizes == 1..MaxChunkSize
ChunkOverlaps == 0..MaxChunkOverlap

\* text[start:end] for 0 <= start <= end <= len(text)
Slice(text, start, end) == SubSeq(text, start + 1, end)

\* the loop body with the cursor moved to the end of the window instead of overlap characters before it
chunk_text_step_NoOverlap(c) ==
    LET length == Len(c.text)
        end == Min(c.start + c.size, length)
        chunk_text == strip(Slice(c.text, c.start, end))
        appended_chunks == IF chunk_text # <<>> THEN Append(c.chunks, chunk_text) ELSE c.chunks
        seen == Append(c.windows, [start |-> c.start, end |-> end])
    IN  IF end = length
        THEN [c EXCEPT !.pc = "done", !.chunks = appended_chunks, !.windows = seen]
        ELSE [c EXCEPT !.chunks = appended_chunks, !.windows = seen, !.start = Max(0, end)]

\* one pass of the while loop's body: the window [start, end), the trimmed chunk, the break, the next cursor
chunk_text_step(c) ==
    LET length == Len(c.text)
        end == Min(c.start + c.size, length)
        chunk_text == strip(Slice(c.text, c.start, end))
        appended_chunks == IF chunk_text # <<>> THEN Append(c.chunks, chunk_text) ELSE c.chunks
        seen == Append(c.windows, [start |-> c.start, end |-> end])
    IN  IF end = length
        THEN [c EXCEPT !.pc = "done", !.chunks = appended_chunks, !.windows = seen]
        ELSE [c EXCEPT !.chunks = appended_chunks, !.windows = seen, !.start = Max(0, end - c.overlap)]

\* chunks = [], start = 0
InitChunk ==
    /\ InitChat
    /\ InitStore
    /\ chunker \in { [pc |-> "loop", text |-> text, size |-> size, overlap |-> overlap, start |-> 0,
                      chunks |-> <<>>, windows |-> <<>>] :
                     text \in ChunkTexts, size \in ChunkSizes, overlap \in ChunkOverlaps }
    /\ generation = IdleGeneration
    /\ intent = IdleIntent
    /\ insertion = IdleInsertion
    /\ InitTools

\* while start < length: ...; the loop is left by the test (return chunks) or by the break
ChunkIterate ==
    /\ chunker.pc = "loop"
    /\ Len(chunker.windows) < MaxIterations
    /\ chunker' = IF chunker.start < Len(chunker.text)
                  THEN chunk_text_step(chunker)
                  ELSE [chunker EXCEPT !.pc = "done"]
    /\ UNCHANGED <<chatVars, storeVars, toolVars, generation, intent, insertion>>

NextChunk == ChunkIterate

SpecChunk == InitChunk /\ [][NextChunk]_vars

-----------------------------------------------------------------------------
(* Claims about _chunk_text *)

\* C21, first part: the cursor after a pass is never below the start of the window just scanned
CursorNeverMovesBack == [][chunker'.start >= chunker.start]_vars

\* C21: _chunk_text terminates for every text, chunk size and overlap: every pass of the loop that
\* does not leave it moves the cursor forward, so that the scan reaches the end of the text
C21_EveryPassAdvancesOrEnds ==
    [][(chunker.pc = "loop" /\ chunker'.pc = "loop") => chunker'.start > chunker.start]_vars

\* the windows of a scan of length with size and overlap < size, as the claim states them
WindowStart(k, size, overlap) == (k - 1) * (size - overlap)

RECURSIVE Emitted(_, _)
\* the trimmed text of every window that is not blank, from left to right
Emitted(text, windows) ==
    IF windows = <<>> THEN <<>>
    ELSE LET rest == Emitted(text, SubSeq(windows, 1, Len(windows) - 1))
             w == windows[Len(windows)]
             t == strip(Slice(text, w.start, w.end))
         IN  IF t # <<>> THEN Append(rest, t) ELSE rest

\* C22: with 0 <= overlap < size the windows start at 0, S-O, 2(S-O), ..., every window but the last
\* has exactly S characters, each window starts O characters before the end of the one before, the
\* last window ends at the end of the text, every character lies in a window, and the chunks are the
\* trimmed non-blank windows from left to right
C22_WindowsTileTheText ==
    chunker.pc \in {"loop", "done"} /\ chunker.overlap < chunker.size =>
        LET w == chunker.windows
            n == Len(w)
            L == Len(chunker.text)
        IN  /\ \A k \in 1..n : w[k].start = WindowStart(k, chunker.size, chunker.overlap)
            /\ \A k \in 1..n : (k < n \/ chunker.pc = "loop") => w[k].end - w[k].start = chunker.size
            /\ \A k \in 2..n : w[k].start = w[k - 1].end - chunker.overlap
            /\ chunker.chunks = Emitted(chunker.text, w)
            /\ chunker.pc = "done" =>
                   /\ L > 0 => (n > 0 /\ w[n].end = L)
                   /\ \A i \in 0..(L - 1) : \E k \in 1..n : w[k].start <= i /\ i < w[k].end

\* a finished scan with overlap, three or more windows, one of them blank and so without a chunk
C22_Witness ==
    /\ chunker.pc = "done"
    /\ chunker.overlap > 0 /\ chunker.overlap < chunker.size
    /\ Len(chunker.windows) >= 3
    /\ chunker.chunks # <<>>
    /\ Len(chunker.chunks) < Len(chunker.windows)

-----------------------------------------------------------------------------
(* Claims about _retrieve_relevant_chunks *)

\* a retrieval returns in this step
RetrievalReturns == retrieval.pc # "done" /\ retrieval'.pc = "done"

\* the scores of a result list never increase from one result to the next
Ranked(results) == \A i, j \in 1..Len(results) : i < j => results[i].score >= results[j].score

\* C23: _retrieve_relevant_chunks returns its results in non-increasing score order, exactly
\* min(top_k, number of stored chunks) of them, and none when the store is empty
C23_RetrievalRankedAndSized ==
    [][RetrievalReturns =>
          /\ Ranked(retrieval'.results)
          /\ Len(retrieval'.results) = Min(retrieval'.k, Len(chunks'))
          /\ chunks' = <<>> => retrieval'.results = <<>>]_vars

\* the order alone holds in every state of the store
RetrievalAlwaysRanked == [][RetrievalReturns => Ranked(retrieval'.results)]_vars

\* C23 holds as long as no ingest_pdfs call has raised
RetrievalRankedAndSizedWhileNothingRaised ==
    [][RetrievalReturns /\ ingest_failures = 0 =>
          /\ Ranked(retrieval'.results)
          /\ Len(retrieval'.results) = Min(retrieval'.k, Len(chunks'))
          /\ chunks' = <<>> => retrieval'.results = <<>>]_vars

\* a retrieval asked for fewer results than are stored returned them out of stored order
RetrievalRankedWitness ==
    /\ retrieval.pc = "done"
    /\ ingest_failures = 0
    /\ retrieval.k < Len(chunks)
    /\ Len(retrieval.results) = retrieval.k
    /\ retrieval.results[1].position > retrieval.results[2].position
    /\ retrieval.results[1].score > retrieval.results[2].score

-----------------------------------------------------------------------------
(* SpecGenerate: one _generate_with_fallback call, one action per call to   *)
(* the provider; every call may return text, return no text, or raise       *)

GEMINI_MODEL == <<"g", "e", "m", "i", "n", "i", "-", "1", ".", "0", "-", "p", "r", "o">>

candidate_models ==
    << GEMINI_MODEL, <<"g", "e", "m", "i", "n", "i", "-", "1", ".", "5", "-", "f", "l", "a", "s", "h">>, <<"g", "e", "m", "i", "n", "i", "-", "1", ".", "5", "-", "p", "r", "o">>, <<"g", "e", "m", "i", "n", "i", "-", "1", ".", "0", "-", "p", "r", "o">>, <<"g", "e", "m", "i", "n", "i", "-", "p", "r", "o">> >>

\* what genai.list_models() may yield: a model's name and its supported generation methods
ListedModel(name, methods) == [name |-> name, supported_generation_methods |-> methods]
FlashLatest == ListedModel(<<"m", "o", "d", "e", "l", "s", "/", "g", "e", "m", "i", "n", "i", "-", "f", "l", "a", "s", "h", "-", "l", "a", "t", "e", "s", "t">>, {"generateContent", "countTokens"})
GeminiUpper == ListedModel(<<"m", "o", "d", "e", "l", "s", "/", "G", "e", "m", "i", "n", "i", "-", "X">>, {"generateContent"})
EmbeddingOnly == ListedModel(<<"m", "o", "d", "e", "l", "s", "/", "g", "e", "m", "i", "n", "i", "-", "e", "m", "b", "e", "d", "d", "i", "n", "g">>, {"embedContent"})
Bison == ListedModel(<<"m", "o", "d", "e", "l", "s", "/", "t", "e", "x", "t", "-", "b", "i", "s", "o", "n">>, {"generateContent"})
Listings == { <<>>, <<FlashLatest>>, <<EmbeddingOnly>>, <<Bison>>, <<GeminiUpper, FlashLatest>>,
              <<EmbeddingOnly, FlashLatest>> }

\* the outcomes of generate_content: non-empty text, no text (None, empty or blank), an exception
Outcomes == {"text", "empty", "error"}
TextOf(model) == <<"answer of ">> \o model
ErrorOf(model) == <<"error of ">> \o model
ErrorOfListing == <<"error of list_models">>

\* "generateContent" in supported and "gemini" in name.lower()
Eligible(model) ==
    "generateContent" \in model.supported_generation_methods /\ Contains(lower(model.name), <<"g", "e", "m", "i", "n", "i">>)

Attempt(model, phase, outcome) == [model |-> model, phase |-> phase, outcome |-> outcome]

\* the call is made: candidate_models built, last_err = None
InitGenerate ==
    /\ InitChat
    /\ InitStore
    /\ chunker = IdleChunker
    /\ generation = [IdleGeneration EXCEPT !.pc = "candidates"]
    /\ intent = IdleIntent
    /\ insertion = IdleInsertion
    /\ InitTools

\* one candidate tried without leaving the loop when it returns text
try_candidate_KeepGoing(g, outcome) ==
    LET m == candidate_models[g.next]
        last == g.next = Len(candidate_models)
        after == [g EXCEPT !.next = g.next + 1, !.pc = IF last THEN "list" ELSE "candidates"]
    IN  IF m = <<>> THEN after
        ELSE IF outcome = "text"
             THEN [after EXCEPT !.attempts = Append(g.attempts, Attempt(m, "candidates", outcome)),
                                !.result = TextOf(m)]
        ELSE IF outcome = "error"
             THEN [after EXCEPT !.attempts = Append(g.attempts, Attempt(m, "candidates", outcome)),
                                !.last_err = Some(ErrorOf(m))]
        ELSE [after EXCEPT !.attempts = Append(g.attempts, Attempt(m, "candidates", outcome))]

\* lines 345-354: one pass of the loop over candidate_models
try_candidate(g, outcome) ==
    LET m == candidate_models[g.next]
        last == g.next = Len(candidate_models)
        after == [g EXCEPT !.next = g.next + 1, !.pc = IF last THEN "list" ELSE "candidates"]
    IN  IF m = <<>> THEN after
        ELSE IF outcome = "text"
             THEN [g EXCEPT !.attempts = Append(g.attempts, Attempt(m, "candidates", outcome)),
                            !.pc = "returned", !.result = TextOf(m)]
        ELSE IF outcome = "error"
             THEN [after EXCEPT !.attempts = Append(g.attempts, Attempt(m, "candidates", outcome)),
                                !.last_err = Some(ErrorOf(m))]
        ELSE [after EXCEPT !.attempts = Append(g.attempts, Attempt(m, "candidates", outcome))]

GenerateCandidate ==
    /\ generation.pc = "candidates"
    /\ \E outcome \in Outcomes : generation' = try_candidate(generation, outcome)
    /\ UNCHANGED <<chatVars, storeVars, toolVars, chunker, intent, insertion>>

\* line 369: raise RuntimeError(f"...: {last_err}")
fail(g) == [g EXCEPT !.pc = "raised"]

\* line 358: genai.list_models(), which may raise (lines 366-367)
GenerateList ==
    /\ generation.pc = "list"
    /\ \/ \E listing \in Listings :
             generation' =
                 LET g == [generation EXCEPT !.listed = listing,
                                             !.attempts = Append(@, Attempt(<<>>, "discovery", "listed"))]
                 IN  IF listing = <<>> THEN fail(g) ELSE [g EXCEPT !.pc = "discovery"]
       \/ generation' = fail([generation EXCEPT !.last_err = Some(ErrorOfListing),
                                                !.attempts = Append(@, Attempt(<<>>, "discovery", "error"))])
    /\ UNCHANGED <<chatVars, storeVars, toolVars, chunker, intent, insertion>>

\* lines 358-367: one pass of the loop over the listed models; an exception ends the loop
try_listed(g, outcome) ==
    LET model == Head(g.listed)
        rest == Tail(g.listed)
        tried == Append(g.attempts, Attempt(model.name, "discovery", outcome))
    IN  IF ~Eligible(model)
        THEN IF rest = <<>> THEN fail([g EXCEPT !.listed = rest]) ELSE [g EXCEPT !.listed = rest]
        ELSE IF outcome = "text"
             THEN [g EXCEPT !.attempts = tried, !.pc = "returned", !.result = TextOf(model.name)]
        ELSE IF outcome = "error"
             THEN fail([g EXCEPT !.attempts = tried, !.last_err = Some(ErrorOf(model.name))])
        ELSE IF rest = <<>> THEN fail([g EXCEPT !.attempts = tried, !.listed = rest])
        ELSE [g EXCEPT !.attempts = tried, !.listed = rest]

GenerateListed ==
    /\ generation.pc = "discovery"
    /\ \E outcome \in Outcomes : generation' = try_listed(generation, outcome)
    /\ UNCHANGED <<chatVars, storeVars, toolVars, chunker, intent, insertion>>

NextGenerate ==
    \/ GenerateCandidate
    \/ GenerateList
    \/ GenerateListed

SpecGenerate == InitGenerate /\ [][NextGenerate]_vars

-----------------------------------------------------------------------------
(* Claims about _generate_with_fallback *)

\* the calls made to generate_content for the candidate models, and all calls of the discovery
CandidateAttempts == SelectSeq(generation.attempts, LAMBDA a : a.phase = "candidates")
DiscoveryAttempts == SelectSeq(generation.attempts, LAMBDA a : a.phase = "discovery")

\* C24: the candidate models are tried in their fixed order, the configured model first; the first
\* non-empty text is the result and no model is invoked after it; the discovery is attempted only
\* after every candidate has failed or returned no text
C24_CandidatesInOrderThenDiscovery ==
    LET a == generation.attempts
        n == Len(CandidateAttempts)
    IN  /\ \A i \in 1..n : a[i].phase = "candidates" /\ a[i].model = candidate_models[i]
        /\ n > 0 => a[1].model = GEMINI_MODEL
        /\ \A i \in 1..Len(a) : a[i].outcome = "text" => i = Len(a)
        /\ (\E i \in 1..Len(a) : a[i].outcome = "text")
               <=> (generation.pc = "returned" /\ generation.result = TextOf(a[Len(a)].model))
        /\ DiscoveryAttempts # <<>> =>
               /\ n = Len(candidate_models)
               /\ \A i \in 1..n : a[i].outcome \in {"empty", "error"}

\* the third candidate answered after one raised and one returned no text
C24_Witness ==
    /\ generation.pc = "returned"
    /\ Len(generation.attempts) = 3
    /\ generation.attempts[1].outcome = "error"
    /\ generation.attempts[2].outcome = "empty"
    /\ generation.result = TextOf(candidate_models[3])

\* a listed model answered after every candidate failed
DiscoveryAnsweredWitness ==
    /\ generation.pc = "returned"
    /\ Len(CandidateAttempts) = Len(candidate_models)
    /\ Len(DiscoveryAttempts) = 3


\* the exception an attempt raised
ErrorOfAttempt(a) == IF a.model = <<>> THEN ErrorOfListing ELSE ErrorOf(a.model)

Greatest(S) == CHOOSE x \in S : \A y \in S : x >= y

\* the positions of the attempts that raised
Errored == { i \in 1..Len(generation.attempts) : generation.attempts[i].outcome = "error" }

\* every candidate and the discovery were attempted and none returned text
EverythingAttempted ==
    /\ Len(CandidateAttempts) = Len(candidate_models)
    /\ DiscoveryAttempts # <<>>
    /\ \A i \in 1..Len(generation.attempts) : generation.attempts[i].outcome # "text"

\* C25: the generation error is raised only after every candidate model and the discovery have been
\* attempted without non-empty text, and it carries the last error the provider raised
C25_GenerationErrorCarriesLastProviderError ==
    generation.pc = "raised" =>
        /\ EverythingAttempted
        /\ Errored # {}
        /\ generation.last_err = Some(ErrorOfAttempt(generation.attempts[Greatest(Errored)]))

\* what holds instead: the error carries the last error raised if there was one, and None otherwise
GenerationErrorCarriesLastErrorIfAny ==
    generation.pc = "raised" =>
        /\ EverythingAttempted
        /\ generation.last_err = IF Errored = {} THEN None
                                 ELSE Some(ErrorOfAttempt(generation.attempts[Greatest(Errored)]))

\* the error raised after an early candidate raised and every later call returned no text
GenerationErrorWitness ==
    /\ generation.pc = "raised"
    /\ Errored = {2}
    /\ Len(generation.attempts) > 6

-----------------------------------------------------------------------------
(* SpecIntent: detect_intent applied to any text of up to MaxIntentWords    *)
(* words of a small vocabulary, and to the two texts of its documentation   *)

MaxIntentWords == 3

IntentWords ==
    { <<"b", "o", "o", "k">>, <<"B", "o", "o", "k">>, <<"b", "o", "o", "k", "i", "n", "g">>, <<"a">>, <<"t", "a", "b", "l", "e">>, <<"P", "R", "O", "J", "E", "C", "T">>, <<"o", "v", "e", "r", "v", "i", "e", "w">>, <<"r", "e", "s", "e", "r", "v", "e">>,
      <<"f", "a", "c", "e", "b", "o", "o", "k">>, <<"c", "a", "n", "c", "e", "l">>, <<"m", "y">>, <<"h", "o", "w", " ", "i", "t", " ", "w", "o", "r", "k", "s">> }

BookATableFor2 == <<"b", "o", "o", "k", " ", "a", " ", "t", "a", "b", "l", "e", " ", "f", "o", "r", " ", "2">>
WhatIsThisProjectAbout == <<"w", "h", "a", "t", " ", "i", "s", " ", "t", "h", "i", "s", " ", "p", "r", "o", "j", "e", "c", "t", " ", "a", "b", "o", "u", "t">>

RECURSIVE Sentence(_)
\* the words joined by single blanks
Sentence(words) ==
    IF words = <<>> THEN <<>>
    ELSE IF Len(words) = 1 THEN words[1]
    ELSE words[1] \o <<" ">> \o Sentence(Tail(words))

IntentTexts ==
    {BookATableFor2, WhatIsThisProjectAbout}
        \cup { Sentence(words) : words \in UNION { [1..n -> IntentWords] : n \in 0..MaxIntentWords } }

InitIntent ==
    /\ InitChat
    /\ InitStore
    /\ chunker = IdleChunker
    /\ generation = IdleGeneration
    /\ intent \in { [pc |-> "called", text |-> text, result |-> ""] : text \in IntentTexts }
    /\ insertion = IdleInsertion
    /\ InitTools

DetectIntent ==
    /\ intent.pc = "called"
    /\ intent' = [intent EXCEPT !.pc = "returned", !.result = detect_intent(intent.text)]
    /\ UNCHANGED <<chatVars, storeVars, toolVars, chunker, generation, insertion>>

NextIntent == DetectIntent

SpecIntent == InitIntent /\ [][NextIntent]_vars

-----------------------------------------------------------------------------
(* Claims about detect_intent *)

\* a meta word occurs in the text, whatever its case
HasMetaWord(text) == \E word \in meta_words : Contains(lower(text), word)

\* a booking pattern matches the text, whatever its case
MatchesBookingPattern(text) == \E pat \in booking_patterns : Search(pat, strip(lower(text)))

\* C26: detect_intent returns "general" whenever a meta word occurs in the text, even if a booking
\* pattern matches too; otherwise "booking" iff a booking pattern matches; otherwise "general"; so
\* "book a table for 2" is booking and "what is this project about" is general
C26_MetaWordsBeforeBookingPatterns ==
    intent.pc = "returned" =>
        /\ HasMetaWord(intent.text) => intent.result = "general"
        /\ ~HasMetaWord(intent.text) => (intent.result = "booking" <=> MatchesBookingPattern(intent.text))
        /\ intent.result \in {"booking", "general"}
        /\ intent.text = BookATableFor2 => intent.result = "booking"
        /\ intent.text = WhatIsThisProjectAbout => intent.result = "general"

\* a text with a meta word and a booking pattern was found general
C26_Witness ==
    /\ intent.pc = "returned"
    /\ HasMetaWord(intent.text)
    /\ MatchesBookingPattern(intent.text)
    /\ intent.result = "general"

\* the two documented texts were classified, and so was a text in which "book" is only part of a word
BookInsideAWordWitness ==
    /\ intent.pc = "returned"
    /\ intent.text = <<"f", "a", "c", "e", "b", "o", "o", "k", " ", "a", " ", "t", "a", "b", "l", "e">>
    /\ intent.result = "general"

-----------------------------------------------------------------------------
(* Claims about the growth of the store *)

\* an ingest_pdfs call of thread t returns in this step
IngestReturns(t) == ingest[t].pc # "done" /\ ingest'[t].pc = "done"

\* C27: across any sequence of ingest_pdfs calls the chunks only grow, every chunk keeping its
\* position; a call returns the number of chunks it added; a call without files or without chunks
\* returns 0 and leaves chunks, embeddings and index as they were
C27_ChunksOnlyGrow ==
    [][/\ IsPrefix(chunks, chunks')
       /\ \A t \in Threads :
             IngestReturns(t) =>
                \E before \in {SubSeq(chunks', 1, Len(chunks') - Len(ingest'[t].new_chunks))} :
                   /\ chunks' = before \o ingest'[t].new_chunks
                   /\ ingest'[t].returned = Some(Len(chunks') - Len(before))
                   /\ ingest'[t].new_chunks = <<>> =>
                         /\ ingest'[t].returned = Some(0)
                         /\ chunks' = chunks /\ embeddings' = embeddings /\ faiss_index' = faiss_index]_vars

\* a second call returned 1 for the chunk it appended after the two of the first
C27_Witness ==
    /\ ingest[1].pc = "done"
    /\ ingest_calls = 2
    /\ ingest[1].returned = Some(1)
    /\ Len(chunks) = 3
    /\ chunks[3] = DocumentChunk("b.pdf", 1)

\* a call with a file without text returned 0 on a store that holds chunks
EmptyIngestWitness ==
    /\ ingest[1].pc = "done"
    /\ ingest[1].returned = Some(0)
    /\ chunks # <<>>
    /\ Len(embeddings) = Len(chunks)

-----------------------------------------------------------------------------
(* SpecPage: a dialogue in which the user answers what is asked, and asks    *)
(* for a booking again once it is completed; the database and the mail       *)
(* server behave in any way in the runs of the page that receive a payload   *)

MaxPageTurns == 10

\* what the user says: what is asked for, or one more way to ask for a booking
PageInputs(state) == Expected(state) \cup { <<"s", "c", "h", "e", "d", "u", "l", "e", " ", "i", "t">> }

PageTurn ==
    /\ turns < MaxPageTurns
    /\ \E raw \in PageInputs(booking_state) : PageRun(raw, PageEnvs)
    /\ UNCHANGED detours

NextPage == PageTurn

SpecPage == Init /\ [][NextPage]_vars

-----------------------------------------------------------------------------
(* Claims about the tools behind the chat page *)

\* C28: when the router returns a payload the page calls persistence first and the email tool only
\* after persistence succeeded; a failed email leaves the database as persistence left it; and
\* whatever the two tools return, the booking state of the conversation stays 'completed'
C28_PersistThenEmailStateUntouched ==
    [][turns' = turns + 1 =>
          IF payload' = None THEN page'.calls = <<>> /\ db' = db /\ outbox' = outbox
          ELSE /\ page'.calls[1] = "booking_persistence_tool"
               /\ page'.calls \in {<<"booking_persistence_tool">>, <<"booking_persistence_tool", "email_tool">>}
               /\ Len(page'.calls) = 2 <=> page'.persist[1].success
               /\ page'.db_calls # <<>> =>
                     /\ Len(db'.customers) = page'.db_calls[Len(page'.db_calls)].customers
                     /\ Len(db'.bookings) = page'.db_calls[Len(page'.db_calls)].bookings
               /\ IsPrefix(db.customers, db'.customers) /\ IsPrefix(db.bookings, db'.bookings)
               /\ Len(outbox') > Len(outbox) => page'.persist[1].success
               /\ booking_state' # None /\ booking_state'[1].stage = "completed"]_vars

\* the booking was stored, the email failed, the row is there and the conversation is completed
C28_Witness ==
    /\ payload # None
    /\ page.persist # None /\ page.persist[1].success
    /\ page.email # None /\ ~page.email[1].success
    /\ \E i \in 1..Len(db.bookings) : Some(db.bookings[i].id) = page.persist[1].booking_id
    /\ outbox = <<>>
    /\ Stage = "completed"

\* persistence failed, no email was attempted and the conversation is completed all the same
PersistenceFailedWitness ==
    /\ payload # None
    /\ page.persist # None /\ ~page.persist[1].success
    /\ page.calls = <<"booking_persistence_tool">>
    /\ page.status = <<"error">>
    /\ Stage = "completed"

-----------------------------------------------------------------------------
(* SpecRecord: a value put into any booking record, and detect_missing_fields *)
(* before and after                                                           *)

\* a record holds, for each required field, nothing, the empty string or a value
Records == UNION { [S -> {"empty", "good"}] : S \in SUBSET FieldSet }
RecordOf(shape) == [f \in DOMAIN shape |-> IF shape[f] = "good" THEN GoodValue[f] ELSE <<>>]

\* the values inserted: a valid one, and a blank one, which is not empty either
InsertedValues(f) == {GoodValue[f], <<" ">>}

InitRecord ==
    /\ InitChat
    /\ InitStore
    /\ chunker = IdleChunker
    /\ generation = IdleGeneration
    /\ intent = IdleIntent
    /\ InitTools
    /\ insertion \in { [pc |-> "called", booking |-> RecordOf(shape), field |-> f, value |-> v,
                        before |-> <<>>, after |-> <<>>] :
                       shape \in Records, f \in FieldSet, v \in UNION { InsertedValues(g) : g \in FieldSet } }

\* detect_missing_fields(booking); booking[field] = value; detect_missing_fields(booking)
InsertValue ==
    /\ insertion.pc = "called"
    /\ insertion' = LET stored == SetItem(insertion.booking, insertion.field, insertion.value) IN
                    [insertion EXCEPT !.pc = "done", !.booking = stored,
                                      !.before = detect_missing_fields(insertion.booking),
                                      !.after = detect_missing_fields(stored)]
    /\ UNCHANGED <<chatVars, storeVars, toolVars, chunker, generation, intent>>

NextRecord == InsertValue

SpecRecord == InitRecord /\ [][NextRecord]_vars

\* C29: after a non-empty value is put into a field of a booking record, detect_missing_fields
\* reports the field as not missing and every other required field as it did before
C29_InsertionClearsOnlyItsField ==
    insertion.pc = "done" =>
        /\ DOMAIN insertion.after = FieldSet
        /\ insertion.after[insertion.field] = FALSE
        /\ \A f \in FieldSet \ {insertion.field} : insertion.after[f] = insertion.before[f]

\* a field that was missing is not missing any more, beside a field that stays missing and a field
\* that stays present
C29_Witness ==
    /\ insertion.pc = "done"
    /\ insertion.before[insertion.field]
    /\ ~insertion.after[insertion.field]
    /\ \E f, g \in FieldSet \ {insertion.field} : insertion.after[f] /\ ~insertion.after[g]

-----------------------------------------------------------------------------
(* SpecPersist: booking_persistence_tool called with complete and incomplete *)
(* payloads, the database behaving in any way                                *)

MaxPersists == 3

Padded(v) == <<" ">> \o v \o <<" ">>

\* a complete payload, one with padded values, one with each field blank, one without a key
PersistPayloads ==
    {GoodValue, [f \in FieldSet |-> Padded(GoodValue[f])]}
        \cup { [GoodValue EXCEPT ![f] = <<" ", " ">>] : f \in FieldSet }
        \cup { [f \in FieldSet \ {"time"} |-> GoodValue[f]] }

PersistCall ==
    /\ persist_calls < MaxPersists
    /\ \E booking \in PersistPayloads, env \in PersistEnvs :
       \E run \in {booking_persistence_tool(db, booking, env)} :
          /\ db' = run.db
          /\ page' = [IdlePage EXCEPT !.calls = <<"booking_persistence_tool">>, !.db_calls = run.calls,
                                      !.persist = Some(run.result)]
          /\ payload' = Some(booking)
    /\ persist_calls' = persist_calls + 1
    /\ UNCHANGED <<booking_state, messages, reply, user_input, routed, appended, log, rag_result, turns,
                   detours, outbox, uploaded, storeVars, callVars>>

NextPersist == PersistCall

SpecPersist == Init /\ [][NextPersist]_vars

\* a field of the payload is blank or absent
HasBlankField(booking) == \E f \in FieldSet : strip(Get(booking, f)) = <<>>

\* the database call returned an id
ReturnedId(call) == ~call.result.raised /\ call.result.value # None

\* the positions of the calls of a database function among the calls of a run
CallsOf(calls, fn) == { i \in 1..Len(calls) : calls[i].fn = fn }

\* C30: booking_persistence_tool always returns a result with a success flag; with a blank field it
\* fails without a database call; otherwise the customer is created before the booking and the
\* booking is created with status 'confirmed'; success is reported only when both inserts returned
\* an id; when the booking insert fails the failure is reported and the customer created stays
C30_PersistenceToolContract ==
    [][persist_calls' = persist_calls + 1 /\ page'.persist # None =>
          \E res \in {page'.persist[1]}, calls \in {page'.db_calls} :
             /\ res.success \in BOOLEAN
             /\ HasBlankField(payload'[1]) =>
                   ~res.success /\ res.error = ErrMissingFields /\ calls = <<>> /\ db' = db
             /\ ~HasBlankField(payload'[1]) => calls # <<>> /\ calls[1].fn = "init_db"
             /\ \A i \in CallsOf(calls, "insert_booking") :
                   \E j \in CallsOf(calls, "insert_customer") : j < i /\ ReturnedId(calls[j])
             /\ \A i \in (Len(db.bookings) + 1)..Len(db'.bookings) :
                   /\ db'.bookings[i].status = "confirmed"
                   /\ Some(db'.bookings[i].customer_id) = res.customer_id
             /\ res.success <=>
                   /\ \E j \in CallsOf(calls, "insert_customer") : ReturnedId(calls[j])
                   /\ \E i \in CallsOf(calls, "insert_booking") : ReturnedId(calls[i])
             /\ \A i \in CallsOf(calls, "insert_booking") :
                   ~ReturnedId(calls[i]) =>
                      /\ ~res.success
                      /\ Len(db'.customers) = calls[i - 1].customers
             /\ IsPrefix(db.customers, db'.customers)
             /\ IsPrefix(db.bookings, db'.bookings)]_vars

\* the booking insert failed after the customer was created: failure reported, customer row kept
C30_Witness ==
    /\ persist_calls = 1
    /\ page.persist # None /\ ~page.persist[1].success
    /\ page.persist[1].error = ErrBooking
    /\ page.persist[1].customer_id = Some(1)
    /\ Len(db.customers) = 1 /\ db.customers[1].name = GoodValue["name"]
    /\ db.bookings = <<>>

\* a payload with a blank field was refused after a booking had been stored
BlankFieldRefusedWitness ==
    /\ persist_calls = 2
    /\ HasBlankField(payload[1])
    /\ page.db_calls = <<>>
    /\ Len(db.bookings) = 1 /\ db.bookings[1].status = "confirmed"

-----------------------------------------------------------------------------
(* Claims about the dialogue state reached through handle_booking_flow alone *)

\* a value as the record may hold it: not empty, trimmed, accepted by the validator of its field
Accepted(field, value) ==
    /\ value # <<>>
    /\ strip(value) = value
    /\ validate_field(field, value).is_valid

\* C31: every value in the booking record passed the validator of its own field when it was stored
\* (it is the trimmed user text of that call) and is non-empty and trimmed; so stage 'confirm' is
\* never reached with a value that failed validation
C31_RecordHoldsValidatedValues ==
    [][/\ \A f \in DOMAIN BookingOf(booking_state') : Accepted(f, BookingOf(booking_state')[f])
       /\ \A f \in FieldSet :
             Get(BookingOf(booking_state'), f) # Get(Booking, f) =>
                /\ f = Awaiting
                /\ BookingOf(booking_state')[f] = strip(user_input')
                /\ validate_field(f, user_input').is_valid]_vars

\* the confirmation is asked for a record of six values, the last one stored from padded text
C31_Witness ==
    /\ Stage = "confirm"
    /\ DOMAIN Booking = FieldSet
    /\ Booking["name"] = <<"A", "l">>
    /\ \A f \in FieldSet : Accepted(f, Booking[f])


\* C32: the user text of an invocation made while no field is awaited (the utterance that opens
\* a dialogue) is never stored: the invocation changes no field and, a field being missing,
\* replies with the prompt for the first missing field and awaits it. Where nothing is missing
\* (stages 'confirm', 'completed', 'cancelled') there is no such prompt to give and the reply
\* is the confirmation dialogue's
C32_OpeningUtteranceIsNotStored ==
    [][Awaiting = NoneField =>
          /\ BookingOf(booking_state') = Booking
          /\ IF next_missing_field(Booking) # NoneField
             THEN /\ reply' = field_prompt(next_missing_field(Booking))
                  /\ booking_state'[1].awaiting_field = next_missing_field(Booking)
                  /\ booking_state'[1].stage = "collecting"
             ELSE /\ Stage \in {"confirm", "completed", "cancelled"}
                  /\ reply' \notin {field_prompt(f) : f \in FieldSet}]_vars

\* a dialogue opened with text that would be a valid name: the name is still asked for
C32_Witness ==
    /\ booking_state # None
    /\ Booking = EmptyBooking
    /\ Awaiting = "name"
    /\ user_input = <<" ", "A", "l", " ">>
    /\ reply = field_prompt("name")


\* C33: in every state reachable from a fresh dialogue, stage 'confirm' or 'completed' implies
\* that all six required fields are present and non-empty and that awaiting_field is unset
C33_ConfirmAndCompletedHoldAllFields ==
    Stage \in {"confirm", "completed"} =>
        /\ DOMAIN Booking = FieldSet
        /\ AllFieldsPresent(Booking)
        /\ Awaiting = NoneField

\* C33, the consequence: an affirmative answer to the confirmation never fails on a missing
\* field: the call returns, and returns the payload of the record
AffirmativeAnswerBuildsPayload ==
    [][/\ Stage = "confirm"
       /\ lower(strip(user_input')) \in AffirmativeTokens
       => \A r \in {handle_booking_flow(booking_state, user_input')} :
             /\ ~r.raised
             /\ r.booking_payload = Some(BookingData(Booking))
             /\ payload' = r.booking_payload]_vars

\* a confirmed booking: the payload was built from a record of six values
C33_Witness ==
    /\ Stage = "completed"
    /\ lower(strip(user_input)) \in AffirmativeTokens
    /\ DOMAIN Booking = FieldSet
    /\ payload = Some(BookingData(Booking))

\* the confirmation being asked for, the sixth value just stored
ConfirmationAskedWitness ==
    /\ Stage = "confirm"
    /\ Awaiting = NoneField
    /\ AllFieldsPresent(Booking)
    /\ Booking["time"] = strip(user_input)


\* C34: in every state reachable from a fresh dialogue, confirmed is true if and only if
\* stage is 'completed'
C34_ConfirmedIffCompleted ==
    booking_state # None => (booking_state[1].confirmed <=> booking_state[1].stage = "completed")

\* a booking confirmed by an affirmative answer
C34_Witness ==
    /\ Confirmed
    /\ Stage = "completed"
    /\ lower(strip(user_input)) \in AffirmativeTokens

\* a booking declined at the confirmation: not confirmed, not completed
DeclinedWitness ==
    /\ Stage = "cancelled"
    /\ ~Confirmed
    /\ lower(strip(user_input)) \in NegativeTokens


-----------------------------------------------------------------------------
(* Claims about the history handle_user_message keeps *)

\* every user message of the history has an assistant message right after it
UserMessagesAnswered(history) ==
    \A i \in 1..Len(history) :
        history[i].role = "user" =>
            /\ i < Len(history)
            /\ history[i + 1].role = "assistant"

\* C35: each handle_user_message call passes exactly two entries to the history, the user
\* message and then the assistant reply, for a non-empty message, and exactly one assistant
\* entry for an empty one; the history is the last MAX_MESSAGES entries of what it held plus
\* these; at the end of every call every user message retained in the history is immediately
\* followed by an assistant message
C35_EachCallAddsUserThenAssistant ==
    [][\A input \in {strip(user_input')} :
       \A added \in {SubSeq(appended', Len(appended) + 1, Len(appended'))} :
          /\ routed' # "raised"
          /\ appended' = appended \o added
          /\ added = IF input = <<>> THEN <<Message("assistant", reply')>>
                     ELSE <<Message("user", input), Message("assistant", reply')>>
          /\ messages' = LastN(messages \o added, MAX_MESSAGES)
          /\ UserMessagesAnswered(messages')]_vars

\* C35, the consequence as a property of every state between two calls
HistoryAlwaysAnswered == UserMessagesAnswered(messages)

\* a full history whose oldest entries were dropped, cut between a user message and its reply:
\* the reply stays without its question, and every retained user message keeps its reply
C35_Witness ==
    /\ Len(appended) > MAX_MESSAGES
    /\ Len(messages) = MAX_MESSAGES
    /\ messages[1].role = "assistant"
    /\ appended[Len(appended) - MAX_MESSAGES].role = "user"
    /\ messages[MAX_MESSAGES - 1] = Message("user", strip(user_input))
    /\ messages[MAX_MESSAGES] = Message("assistant", reply)

\* the lone assistant entry of an empty message, right after the reply of the call before
EmptyMessageWitness ==
    /\ strip(user_input) = <<>>
    /\ Len(messages) >= 3
    /\ messages[Len(messages)] = Message("assistant", MsgTypeSomething)
    /\ messages[Len(messages) - 1].role = "assistant"
    /\ messages[Len(messages) - 2].role = "user"

-----------------------------------------------------------------------------
(* Claims about the provider tiers of the stored rows and of the queries *)

\* the rows all come from one provider tier
OneTier(rows) == \A i, j \in 1..Len(rows) : rows[i].tier = rows[j].tier

\* C36: whichever embedding calls fail, every row of the stored embedding matrix and every
\* query vector searched against the index come from the same provider tier: the rows of a
\* batch about to be stacked are of the tier of the stored rows (the stacking cannot fail),
\* and the query vector given to the index is of the tier of the indexed rows
C36_RowsAndQueriesOfOneTier ==
    /\ OneTier(embeddings)
    /\ \A t \in Threads : ingest[t].pc = "stack" => OneTier(embeddings \o ingest[t].new_embs)
    /\ retrieval.pc = "search" => \A i \in 1..Len(faiss_index) : faiss_index[i].tier = retrieval.tier

\* what does hold: the matrix and the index never hold rows of two tiers (np.vstack refuses
\* rows of another length, so the batch of the other tier is lost instead)
StoredRowsOfOneTier == OneTier(embeddings) /\ OneTier(faiss_index)

\* a batch of the other tier refused by the stacking: its chunks are stored, its rows are not
BatchOfOtherTierRefused ==
    /\ ingest[1].pc = "failed"
    /\ ingest[1].new_embs # <<>>
    /\ embeddings # <<>>
    /\ ingest[1].new_embs[1].tier # embeddings[1].tier
    /\ Len(chunks) = Len(embeddings) + Len(ingest[1].new_embs)

\* a query vector of the other tier given to the index: the search raises
QueryOfOtherTierRaises ==
    /\ retrieval.pc = "failed"
    /\ retrieval.tier \in {"remote", "local"}
    /\ faiss_index # <<>>
    /\ faiss_index[1].tier # retrieval.tier


-----------------------------------------------------------------------------
(* SpecUpload: the chat page run again and again (every interaction reruns the script) while *)
(* the files chosen in the sidebar stay in the uploader                                      *)

\* the user chooses files in the uploader; they stay there for the rest of the session
ChooseFiles ==
    /\ uploaded = <<>>
    /\ \E files \in FileLists \ {<<>>} : uploaded' = files
    /\ UNCHANGED <<db, outbox, page, chatVars, storeVars, callVars>>

\* main.py lines 89-93: a run of the page with files in the uploader calls ingest_pdfs(uploaded)
PageRunIngest ==
    /\ uploaded # <<>>
    /\ Quiet
    /\ IngestBegin(1, uploaded)

NextUpload ==
    \/ ChooseFiles
    \/ PageRunIngest
    \/ IngestStep(1)

SpecUpload == Init /\ [][NextUpload]_vars

\* the chunks the uploaded files yield
UploadedChunks == ChunksOf(uploaded)

\* C37: ingest_pdfs is not idempotent. Every call for files already ingested appends all of
\* their chunks again, and their embeddings when the embedding and the stacking succeed; the
\* page calls ingest_pdfs on every run while files are uploaded; so after n runs of the page
\* over a document of c chunks the store holds n*c chunks (and n*c rows if no call raised)
C37_EveryPageRunIngestsAgain ==
    /\ IF uploaded = <<>> THEN ingest_calls = 0 /\ chunks = <<>>
       ELSE \A i \in 1..Len(chunks) :
               chunks[i] = UploadedChunks[((i - 1) % Len(UploadedChunks)) + 1]
    /\ Quiet =>
          /\ Len(chunks) = ingest_calls * Len(UploadedChunks)
          /\ ingest_failures = 0 =>
                /\ Len(embeddings) = ingest_calls * Len(UploadedChunks)
                /\ \A i \in 1..Len(embeddings) : embeddings[i].text = chunks[i]
          /\ ingest[1].pc = "done" => ingest[1].returned = Some(Len(UploadedChunks))

\* C37, step by step: the call appends the chunks of the files whether or not the store
\* already holds them
IngestAppendsAgain ==
    [][ingest[1].pc = "extend" /\ ingest'[1].pc = "embed" =>
          chunks' = chunks \o UploadedChunks]_vars

\* a document of two chunks ingested by two runs of the page: four chunks, four rows, each
\* chunk and its row stored twice
C37_Witness ==
    /\ Quiet
    /\ ingest_calls = 2
    /\ ingest_failures = 0
    /\ Len(UploadedChunks) = 2
    /\ Len(chunks) = 4
    /\ Len(embeddings) = 4
    /\ chunks[3] = chunks[1]
    /\ chunks[4] = chunks[2]
    /\ ingest[1].returned = Some(2)

====
